---- MODULE Spec2Model ----
(***************************************************************************)
(* A model of pyserval, the client library for the Serval REST interface.  *)
(* Bytes and characters are one-character strings, texts are sequences of  *)
(* them; "NUL" stands for the byte 0.                                       *)
(***************************************************************************)
EXTENDS Integers, Sequences, FiniteSets, TLC

(***************************************************************************)
(* Bounds of the model.                                                    *)
(***************************************************************************)
\* The largest number of rows the daemon puts in one JSON table.
MaxRows == 2
\* The largest number of lines of a manifest text.
MaxLines == 2
\* The largest number of custom manifest fields of a call.
MaxCustom == 2
\* The largest numbers of columns and rows of a table given to decode_json_table.
MaxCols == 2
MaxTableRows == 2
MaxSids == 2
\* The largest number of messages of the conversation.
MaxMessages == 3

(***************************************************************************)
(* Texts used as names.                                                    *)
(***************************************************************************)
Str_header == <<"h","e","a","d","e","r">>
Str_rows == <<"r","o","w","s">>
Str_id == <<"i","d">>
Str_token == <<".","t","o","k","e","n">>
Str_fromhere == <<".","f","r","o","m","h","e","r","e">>
Str_author == <<".","a","u","t","h","o","r">>
Str_version == <<"v","e","r","s","i","o","n">>
Str_filesize == <<"f","i","l","e","s","i","z","e">>
Str_service == <<"s","e","r","v","i","c","e">>
Str_date == <<"d","a","t","e">>
Str_filehash == <<"f","i","l","e","h","a","s","h">>
Str_tail == <<"t","a","i","l">>
Str_sender == <<"s","e","n","d","e","r">>
Str_recipient == <<"r","e","c","i","p","i","e","n","t">>
Str_name == <<"n","a","m","e">>
Str_crypt == <<"c","r","y","p","t">>
Str_BK == <<"B","K">>
Str__types == <<"_","t","y","p","e","s">>

(***************************************************************************)
(* Python values are records [t, v]: t the type's name and v the value's    *)
(* text (str(value)), a list's elements or a dict's <<key, value>> pairs.   *)
(***************************************************************************)
Digits == {"0", "1", "2", "3", "4", "5", "6", "7", "8", "9"}
JsonWhitespace == {" ", "\n"}

PyNone == [t |-> "None", v |-> <<>>]
PyTrue == [t |-> "bool", v |-> <<"T", "r", "u", "e">>]
PyFalse == [t |-> "bool", v |-> <<"F", "a", "l", "s", "e">>]
PyStr(text) == [t |-> "str", v |-> text]
PyInt(text) == [t |-> "int", v |-> text]
PyFloat(text) == [t |-> "float", v |-> text]
PyList(elems) == [t |-> "list", v |-> elems]
PyDict(members) == [t |-> "dict", v |-> members]

(***************************************************************************)
(* Python's dict, as the sequence of its <<key, value>> pairs in insertion *)
(* order: a key is held once, and setting it again replaces its value in   *)
(* place.                                                                  *)
(***************************************************************************)
HasKey(pairs, key) == \E n \in 1..Len(pairs) : pairs[n][1] = key

GetItem(pairs, key) == pairs[CHOOSE n \in 1..Len(pairs) : pairs[n][1] = key][2]

DictSetItem(pairs, key, value) ==
  IF HasKey(pairs, key)
  THEN [n \in 1..Len(pairs) |->
          IF pairs[n][1] = key THEN <<key, value>> ELSE pairs[n]]
  ELSE Append(pairs, <<key, value>>)

\* dict.update(other): every pair of other set in turn.
RECURSIVE DictUpdate(_, _)
DictUpdate(pairs, other) ==
  IF other = <<>> THEN pairs
  ELSE DictUpdate(DictSetItem(pairs, other[1][1], other[1][2]), Tail(other))

Keys(pairs) == {pairs[n][1] : n \in 1..Len(pairs)}

(***************************************************************************)
(* json.loads, on the part of JSON the daemon's tables use: objects,       *)
(* arrays, strings without escapes, non-negative integers, null, true and  *)
(* false, with whitespace between tokens.                                  *)
(***************************************************************************)
ParseFail == [ok |-> FALSE, val |-> PyNone, pos |-> 0]
ParseOk(val, pos) == [ok |-> TRUE, val |-> val, pos |-> pos]

RECURSIVE SkipWs(_, _)
SkipWs(s, i) ==
  IF i <= Len(s) /\ s[i] \in JsonWhitespace THEN SkipWs(s, i + 1) ELSE i

\* The index of the quote that closes a string whose text starts at i, or 0:
\* a string may not hold a raw line break and must be closed.
RECURSIVE ScanString(_, _)
ScanString(s, i) ==
  IF i > Len(s) THEN 0
  ELSE IF s[i] = "\"" THEN i
  ELSE IF s[i] = "\n" THEN 0
  ELSE ScanString(s, i + 1)

ParseString(s, i) ==
  LET j == ScanString(s, i + 1)
  IN IF j = 0 THEN ParseFail ELSE ParseOk(PyStr(SubSeq(s, i + 1, j - 1)), j + 1)

RECURSIVE ScanDigits(_, _)
ScanDigits(s, i) ==
  IF i <= Len(s) /\ s[i] \in Digits THEN ScanDigits(s, i + 1) ELSE i

\* A JSON integer is 0 or starts with a digit that is not 0.
ParseNumber(s, i) ==
  LET j == IF s[i] = "0" THEN i + 1 ELSE ScanDigits(s, i)
  IN ParseOk(PyInt(SubSeq(s, i, j - 1)), j)

ParseLiteral(s, i, text, val) ==
  IF i + Len(text) - 1 <= Len(s) /\ SubSeq(s, i, i + Len(text) - 1) = text
  THEN ParseOk(val, i + Len(text))
  ELSE ParseFail

RECURSIVE ParseValue(_, _)
RECURSIVE ParseElements(_, _, _)
RECURSIVE ParseMembers(_, _, _)

ParseValue(s, i0) ==
  LET i == SkipWs(s, i0)
  IN IF i > Len(s) THEN ParseFail
     ELSE IF s[i] = "\"" THEN ParseString(s, i)
     ELSE IF s[i] \in Digits THEN ParseNumber(s, i)
     ELSE IF s[i] = "n" THEN ParseLiteral(s, i, <<"n", "u", "l", "l">>, PyNone)
     ELSE IF s[i] = "t" THEN ParseLiteral(s, i, <<"t", "r", "u", "e">>, PyTrue)
     ELSE IF s[i] = "f" THEN ParseLiteral(s, i, <<"f", "a", "l", "s", "e">>, PyFalse)
     ELSE IF s[i] = "["
       THEN LET j == SkipWs(s, i + 1)
            IN IF j <= Len(s) /\ s[j] = "]"
               THEN ParseOk(PyList(<<>>), j + 1)
               ELSE ParseElements(s, j, <<>>)
     ELSE IF s[i] = "{"
       THEN LET j == SkipWs(s, i + 1)
            IN IF j <= Len(s) /\ s[j] = "}"
               THEN ParseOk(PyDict(<<>>), j + 1)
               ELSE ParseMembers(s, j, <<>>)
     ELSE ParseFail

\* The elements of a list after its "[", the ones in acc already parsed.
ParseElements(s, i, acc) ==
  LET r == ParseValue(s, i)
      j == SkipWs(s, r.pos)
  IN IF ~r.ok \/ j > Len(s) THEN ParseFail
     ELSE IF s[j] = "," THEN ParseElements(s, j + 1, Append(acc, r.val))
     ELSE IF s[j] = "]" THEN ParseOk(PyList(Append(acc, r.val)), j + 1)
     ELSE ParseFail

\* The members of an object from the quote opening a key, the <<key, value>>
\* pairs in acc already parsed.
ParseMembers(s, i, acc) ==
  IF i > Len(s) \/ s[i] # "\"" THEN ParseFail
  ELSE
    LET k == ParseString(s, i)
        c == SkipWs(s, k.pos)
    IN IF ~k.ok \/ c > Len(s) \/ s[c] # ":" THEN ParseFail
       ELSE
         LET r == ParseValue(s, c + 1)
             j == SkipWs(s, r.pos)
         IN IF ~r.ok \/ j > Len(s) THEN ParseFail
            ELSE IF s[j] = ","
              THEN ParseMembers(s, SkipWs(s, j + 1), DictSetItem(acc, k.val, r.val))
            ELSE IF s[j] = "}"
              THEN ParseOk(PyDict(DictSetItem(acc, k.val, r.val)), j + 1)
            ELSE ParseFail

\* json.loads(s): one value, whitespace around it allowed, nothing after it.
json_loads(s) ==
  LET r == ParseValue(s, 1)
  IN IF r.ok /\ SkipWs(s, r.pos) > Len(s) THEN r ELSE ParseFail

(***************************************************************************)
(* decode_json_table and unmarshall.  A call either returns a value or     *)
(* raises an exception, named by err.                                      *)
(***************************************************************************)
Raise(type) == [ok |-> FALSE, err |-> type, val |-> <<>>]
Return(val) == [ok |-> TRUE, err |-> "none", val |-> val]

\* A mutant: the names are paired with the row read backwards.
Zip_Reversed(xs, ys) ==
  LET n == IF Len(xs) < Len(ys) THEN Len(xs) ELSE Len(ys)
  IN [i \in 1..n |-> <<xs[i], ys[Len(ys) + 1 - i]>>]

\* A mutant: only the first column is paired.
Zip_FirstOnly(xs, ys) ==
  IF xs = <<>> \/ ys = <<>> THEN <<>> ELSE <<(<<xs[1], ys[1]>>)>>

\* zip(xs, ys): pairs up to the end of the shorter one.
RECURSIVE Zip(_, _)
Zip(xs, ys) ==
  IF xs = <<>> \/ ys = <<>> THEN <<>>
  ELSE <<(<<xs[1], ys[1]>>)>> \o Zip(Tail(xs), Tail(ys))

\* One dict per row, in row order.  json["header"] is read in the loop, so
\* a table without rows needs no header.
decode_json_table(json) ==
  IF json.t # "dict" THEN Raise("TypeError")
  ELSE IF ~HasKey(json.v, PyStr(Str_rows)) THEN Raise("KeyError")
  ELSE
    LET rows == GetItem(json.v, PyStr(Str_rows))
    IN IF rows.t # "list" THEN Raise("TypeError")
       ELSE IF rows.v = <<>> THEN Return(<<>>)
       ELSE IF ~HasKey(json.v, PyStr(Str_header)) THEN Raise("KeyError")
       ELSE
         LET header == GetItem(json.v, PyStr(Str_header))
         IN IF header.t # "list" \/ \E i \in 1..Len(rows.v) : rows.v[i].t # "list"
            THEN Raise("TypeError")
            ELSE Return([i \in 1..Len(rows.v) |->
                           DictUpdate(<<>>, Zip(header.v, rows.v[i].v))])

\* unmarshall(json_table, object_class): object_class(**data) for every row;
\* params are the constructor's parameters, all of them required.
unmarshall(json_table, class, params) ==
  LET json_data == decode_json_table(json_table)
  IN IF ~json_data.ok THEN json_data
     ELSE IF \E i \in 1..Len(json_data.val) : Keys(json_data.val[i]) # params
       THEN Raise("TypeError")
     ELSE Return([i \in 1..Len(json_data.val) |->
                    [class |-> class, fields |-> json_data.val[i]]])

MessageParams ==
  {PyStr(<<"t", "y", "p", "e">>),
   PyStr(<<"m", "y", "_", "s", "i", "d">>),
   PyStr(<<"t", "h", "e", "i", "r", "_", "s", "i", "d">>),
   PyStr(<<"m", "y", "_", "o", "f", "f", "s", "e", "t">>),
   PyStr(<<"t", "h", "e", "i", "r", "_", "o", "f", "f", "s", "e", "t">>),
   PyStr(<<"t", "o", "k", "e", "n">>),
   PyStr(<<"t", "e", "x", "t">>),
   PyStr(<<"d", "e", "l", "i", "v", "e", "r", "e", "d">>),
   PyStr(<<"r", "e", "a", "d">>),
   PyStr(<<"t", "i", "m", "e", "s", "t", "a", "m", "p">>),
   PyStr(<<"a", "c", "k", "_", "o", "f", "f", "s", "e", "t">>)}

(***************************************************************************)
(* Manifest(): the fields of a new manifest, all None, and the types of    *)
(* the integer fields.                                                     *)
(***************************************************************************)
IntFields == {Str_version, Str_filesize, Str_date, Str_tail, Str_crypt}

Manifest_types ==
  PyDict(<<(<<PyStr(Str_version), PyStr(<<"i", "n", "t">>)>>),
           (<<PyStr(Str_filesize), PyStr(<<"i", "n", "t">>)>>),
           (<<PyStr(Str_date), PyStr(<<"i", "n", "t">>)>>),
           (<<PyStr(Str_tail), PyStr(<<"i", "n", "t">>)>>),
           (<<PyStr(Str_crypt), PyStr(<<"i", "n", "t">>)>>)>>)

Manifest_init ==
  <<(<<PyStr(Str_id), PyNone>>),
    (<<PyStr(Str_version), PyNone>>),
    (<<PyStr(Str_filesize), PyNone>>),
    (<<PyStr(Str_service), PyNone>>),
    (<<PyStr(Str_date), PyNone>>),
    (<<PyStr(Str_filehash), PyNone>>),
    (<<PyStr(Str_tail), PyNone>>),
    (<<PyStr(Str_sender), PyNone>>),
    (<<PyStr(Str_recipient), PyNone>>),
    (<<PyStr(Str_name), PyNone>>),
    (<<PyStr(Str_crypt), PyNone>>),
    (<<PyStr(Str_BK), PyNone>>),
    (<<PyStr(Str__types), Manifest_types>>)>>

(***************************************************************************)
(* Rhizome._parse_bundlelist: one Bundle (or Journal, when the row sets    *)
(* tail) per row of the table, its manifest holding the row's manifest     *)
(* fields.                                                                 *)
(***************************************************************************)
IsManifestField(pair) == HasKey(Manifest_init, pair[1])

BundleOf(data) ==
  LET manifest == DictUpdate(Manifest_init, SelectSeq(data, IsManifestField))
      author == GetItem(data, PyStr(Str_author))
  IN [class |-> IF GetItem(manifest, PyStr(Str_tail)) = PyNone
                THEN "Bundle" ELSE "Journal",
      manifest |-> manifest,
      payload |-> PyNone,
      bundle_id |-> GetItem(data, PyStr(Str_id)),
      bundle_author |-> IF author # PyNone THEN author ELSE PyStr(<<>>),
      bundle_secret |-> PyStr(<<>>),
      from_here |-> GetItem(data, PyStr(Str_fromhere)),
      complete |-> FALSE,
      token |-> GetItem(data, PyStr(Str_token))]

BundleKeys == {PyStr(Str_id), PyStr(Str_fromhere), PyStr(Str_token), PyStr(Str_author)}

_parse_bundlelist(reply_json) ==
  LET bundle_data == decode_json_table(reply_json)
  IN IF ~bundle_data.ok THEN bundle_data
     ELSE IF \E i \in 1..Len(bundle_data.val) :
               ~(BundleKeys \subseteq Keys(bundle_data.val[i]))
       THEN Raise("KeyError")
     ELSE Return([i \in 1..Len(bundle_data.val) |-> BundleOf(bundle_data.val[i])])

(***************************************************************************)
(* The long-poll calls, Rhizome.get_bundlelist_newsince and                *)
(* MeshMS.message_list_newsince.                                           *)
(*                                                                         *)
(* The daemon streams a table as its header, then "\n[...]" per row, the   *)
(* rows separated by ",", and closes it with "\n]\n}\n" only when it ends  *)
(* the poll.  The header sizes of the code count the header and the "\n["  *)
(* that opens the first row.                                               *)
(***************************************************************************)
BundlelistHeader ==
  << "{","\n","\"","h","e","a","d","e","r","\"",":","[","\"",".","t","o","k","e","n","\"",
     ",","\"","_","i","d","\"",",","\"","s","e","r","v","i","c","e","\"",",","\"","i","d",
     "\"",",","\"","v","e","r","s","i","o","n","\"",",","\"","d","a","t","e","\"",",","\"",
     ".","i","n","s","e","r","t","t","i","m","e","\"",",","\"",".","a","u","t","h","o","r",
     "\"",",","\"",".","f","r","o","m","h","e","r","e","\"",",","\"","f","i","l","e","s",
     "i","z","e","\"",",","\"","f","i","l","e","h","a","s","h","\"",",","\"","s","e","n",
     "d","e","r","\"",",","\"","r","e","c","i","p","i","e","n","t","\"",",","\"","n","a",
     "m","e","\"","]",",","\n","\"","r","o","w","s","\"",":","[" >>

MessagelistHeader ==
  << "{","\n","\"","r","e","a","d","_","o","f","f","s","e","t","\"",":","0",",","\n","\"",
     "l","a","t","e","s","t","_","a","c","k","_","o","f","f","s","e","t","\"",":","0",",",
     "\n","\"","h","e","a","d","e","r","\"",":","[","\"","t","y","p","e","\"",",","\"","m",
     "y","_","s","i","d","\"",",","\"","t","h","e","i","r","_","s","i","d","\"",",","\"",
     "m","y","_","o","f","f","s","e","t","\"",",","\"","t","h","e","i","r","_","o","f","f",
     "s","e","t","\"",",","\"","t","o","k","e","n","\"",",","\"","t","e","x","t","\"",",",
     "\"","d","e","l","i","v","e","r","e","d","\"",",","\"","r","e","a","d","\"",",","\"",
     "t","i","m","e","s","t","a","m","p","\"",",","\"","a","c","k","_","o","f","f","s","e",
     "t","\"","]",",","\n","\"","r","o","w","s","\"",":","[" >>

RowA ==
  <<"[","\"","t","\"",",","1",",","\"","f","\"",",","\"","A","\"",",","1",",","1",",","1",",","n","u","l","l",",","1",",","0",",","\"","\"",",","\"","\"",",","\"","\"",",","\"","a","\"","]">>
RowB ==
  <<"[","\"","u","\"",",","2",",","\"","f","\"",",","\"","B","\"",",","1",",","1",",","1",",","\"","S","\"",",","1",",","0",",","\"","\"",",","\"","\"",",","\"","\"",",","\"","b","\"","]">>
RowC ==
  <<"[","\"","v","\"",",","3",",","\"","f","\"",",","\"","C","\"",",","1",",","1",",","1",",","n","u","l","l",",","1",",","0",",","\"","\"",",","\"","\"",",","\"","\"",",","\"","c","]","\"","]">>
MsgA ==
  <<"[","\"",">","\"",",","\"","s","\"",",","\"","r","\"",",","1",",","1",",","\"","t","\"",",","\"","m","\"",",","t","r","u","e",",","f","a","l","s","e",",","1",",","n","u","l","l","]">>
BundleRows == {RowA, RowB, RowC}
MessageRows == {MsgA}

RECURSIVE RowsText(_, _)
RowsText(rows, first) ==
  IF rows = <<>> THEN <<>>
  ELSE (IF first THEN <<>> ELSE <<",">>) \o <<"\n">> \o rows[1]
       \o RowsText(Tail(rows), FALSE)

TableEnd == <<"\n", "]", "\n", "}", "\n">>

TableText(header, rows) == header \o RowsText(rows, TRUE) \o TableEnd

RowLists(S) == UNION {[1..n -> S] : n \in 0..MaxRows}

\* What the daemon answers a long-poll request with.
Statuses == {200, 401, 404, 500}
Reason(status) ==
  CASE status = 200 -> "OK"
    [] status = 401 -> "Unauthorized"
    [] status = 404 -> "Not Found"
    [] OTHER -> "Internal Server Error"

Tokens == {"token1", "token2"}

BUNDLELIST_HEADER_SIZE == 157
BUNDLELIST_HEADER_NEWLINES == 3
MESSAGELIST_HEADER_SIZE == 178
MESSAGELIST_HEADER_NEWLINES == 5

VARIABLES
  pc,                  \* where the call is: idle, reading, loop_done, returned, raised
  method,              \* the long-poll method called
  token,               \* its token argument
  daemon_status,       \* the status the daemon answers the request with
  stream,              \* the body the daemon sends if the connection stays up
  requests_sent,       \* HTTP requests sent by the call
  consumed,            \* bytes taken from serval_stream.iter_content()
  serval_reply_bytes,  \* the accumulator of the read loop
  lines,               \* its newline counter
  broke,               \* whether the loop ended by its break
  closed_early,        \* whether the connection went down before the body's end
  result,              \* the list the call returned
  error                \* the exception the call raised

VARIABLES
  m_pc,                \* where the manifest call is: idle, returned, raised
  m_call,              \* the call made: new_bundle, new_journal, _get_manifest
  custom_manifest,     \* its custom_manifest argument, as <<key, value>> pairs
  manifest_header,     \* the manifest text _format_params built for the request
  response_data,       \* the text handed to Manifest.update
  values,              \* the mapping Manifest.update built from the lines
  manifest,            \* the __dict__ of the manifest the call ends with
  m_error,             \* the exception the call raised
  m_error_args,        \* what the exception carries
  m_requests,          \* HTTP requests the call sent to the rhizome endpoints
  m_status,            \* the status the daemon answers the call's request with
  m_partial,           \* what is_partial returned for the manifest as it is, if called
  m_payload,           \* the payload get_bundle has put into the bundle
  m_bid                \* the bundle id looked up

VARIABLES
  t_pc,                \* where decode_json_table is: called, returned, raised
  t_json,              \* its argument
  t_data,              \* the list it returned
  t_error              \* the exception it raised

stream_vars ==
  <<pc, method, token, daemon_status, stream, requests_sent, consumed,
    serval_reply_bytes, lines, broke, closed_early, result, error>>

manifest_vars ==
  <<m_pc, m_call, custom_manifest, manifest_header, response_data, values,
    manifest, m_error, m_error_args, m_requests, m_status, m_partial, m_payload,
    m_bid>>

table_vars == <<t_pc, t_json, t_data, t_error>>

(***************************************************************************)
(* The keyring: the daemon's store of unlocked identities, the connection  *)
(* classes, LowLevelKeyring and Keyring.  The pin is always the empty      *)
(* string.                                                                 *)
(***************************************************************************)
VARIABLES
  keyring,             \* the daemon's unlocked identities, in listing order
  sid_counter,         \* identities the daemon has created so far
  credentials_ok,      \* whether the connection's user and password are right
  k_call,              \* the operation called last
  k_args,              \* its arguments
  k_before,            \* the daemon's identities when it was called
  k_log,               \* the requests it sent, each with the daemon's answer
  k_pc,                \* idle, returned, raised
  k_result,            \* what it returned
  k_error,             \* the exception it raised
  k_error_args         \* what the exception carries

keyring_vars ==
  <<keyring, sid_counter, credentials_ok, k_call, k_args, k_before, k_log, k_pc, k_result,
    k_error, k_error_args>>

(***************************************************************************)
(* A Manifest object on which update or == is called.                      *)
(***************************************************************************)
VARIABLES
  o_pc,                \* given, returned, raised
  o_call,              \* the method called
  o_self,              \* the __dict__ of the manifest
  o_before,            \* its __dict__ when the method was called
  o_arg,               \* the argument: the text of update, the other manifest of ==
  o_values,            \* the mapping update had built when it ended
  o_result,            \* what == returned
  o_error              \* the exception raised

object_vars == <<o_pc, o_call, o_self, o_before, o_arg, o_values, o_result, o_error>>

(***************************************************************************)
(* A Bundle or Journal object the caller holds, and the calls made on it.  *)
(***************************************************************************)
VARIABLES
  b_pc,        \* idle, returned or raised
  b_call,      \* the last call
  b_self,      \* the object held: its class and its attributes
  b_before,    \* the object as it was before the last call
  b_log,       \* the requests the last call sent, each with the daemon's reply
  b_result,    \* what the last call returned
  b_error      \* the exception the last call raised

bundle_vars == <<b_pc, b_call, b_self, b_before, b_log, b_result, b_error>>

(***************************************************************************)
(* MeshMS: one conversation, the messages the daemon holds for it, and the *)
(* calls made on it.                                                       *)
(***************************************************************************)
VARIABLES
  ms_pc,       \* idle, returned or raised
  ms_call,     \* the last call: send_message or message_list
  ms_message,  \* the message argument of send_message
  ms_status,   \* the status the daemon answered the call's request with
  ms_posts,    \* the POST requests the last call sent
  ms_stored,   \* the texts of the conversation's messages, newest first
  ms_before,   \* the same, before the last call
  ms_result,   \* the list message_list returned
  ms_error     \* the exception the last call raised

meshms_vars ==
  <<ms_pc, ms_call, ms_message, ms_status, ms_posts, ms_stored, ms_before, ms_result,
    ms_error>>

NoError == [type |-> "none", args |-> <<>>]
Exception(type, args) == [type |-> type, args |-> args]

StreamIdle ==
  /\ pc = "idle"
  /\ method = "none"
  /\ token = "none"
  /\ daemon_status = 0
  /\ stream = <<>>
  /\ requests_sent = 0
  /\ consumed = 0
  /\ serval_reply_bytes = <<>>
  /\ lines = 0
  /\ broke = FALSE
  /\ closed_early = FALSE
  /\ result = <<>>
  /\ error = NoError

\* A mutant: the closing tokens without the list's bracket.
ClosingTokens_NoBracket == <<"\n", "}">>

\* The bytes the loop appends when it breaks.
ClosingTokens == <<"\n", "]", "\n", "}">>

HeaderNewlines(m) ==
  IF m = "get_bundlelist_newsince"
  THEN BUNDLELIST_HEADER_NEWLINES ELSE MESSAGELIST_HEADER_NEWLINES

HeaderSize(m) ==
  IF m = "get_bundlelist_newsince"
  THEN BUNDLELIST_HEADER_SIZE ELSE MESSAGELIST_HEADER_SIZE

\* A mutant: the size test lets a byte at the header size itself through.
StopCondition_AtSize(m, c, n, len) ==
  c = "]" /\ n = HeaderNewlines(m) /\ len >= HeaderSize(m)

\* A mutant: the loop has no break and always reads to the end of the stream.
StopCondition_Never(m, c, n, len) ==
  c = "]" /\ n = HeaderNewlines(m) /\ len > HeaderSize(m) /\ c = "}"

\* The condition of the loop's break, after byte c was counted and appended.
StopCondition(m, c, n, len) ==
  c = "]" /\ n = HeaderNewlines(m) /\ len > HeaderSize(m)

\* CheckedConnection.get: 401 raises, every other response is handed on.
CheckedGet(status) ==
  IF status = 401 THEN Raise("UnauthorizedError") ELSE Return(status)

\* The status checks both calls make before they read the body.
StatusCheck(tok, status) ==
  IF status = 404 THEN Exception("InvalidTokenError", <<tok, Reason(status)>>)
  ELSE IF status # 200 THEN Exception("RhizomeHTTPStatusError", <<status>>)
  ELSE NoError

\* Rhizome.get_bundlelist_newsince(token), up to its read loop.
GetBundlelistNewsince(tok, status, rows) ==
  /\ pc = "idle"
  /\ method' = "get_bundlelist_newsince"
  /\ token' = tok
  /\ daemon_status' = status
  /\ stream' = TableText(BundlelistHeader, rows)
  /\ requests_sent' = requests_sent + 1
  /\ LET response == CheckedGet(status)
         failure == IF response.ok THEN StatusCheck(tok, status)
                    ELSE Exception(response.err, <<>>)
     IN /\ error' = failure
        /\ pc' = IF failure = NoError THEN "reading" ELSE "raised"
  /\ UNCHANGED <<consumed, serval_reply_bytes, lines, broke, closed_early, result>>
  /\ UNCHANGED <<manifest_vars, table_vars, keyring_vars,
               object_vars, bundle_vars, meshms_vars>>

\* LowLevelMeshMS.message_list_newsince builds its path with
\* "/restful/meshms/{}/{}}/newsince/{}/messagelist.json".format(...): the
\* single "}" makes str.format raise ValueError, before any request.
MessageListNewsincePath == Raise("ValueError")

\* MeshMS.message_list_newsince(sender, recipient, token), up to its read loop.
MessageListNewsince(tok, status, rows) ==
  /\ pc = "idle"
  /\ method' = "message_list_newsince"
  /\ token' = tok
  /\ daemon_status' = status
  /\ stream' = TableText(MessagelistHeader, rows)
  /\ LET path == MessageListNewsincePath
         response == IF path.ok THEN CheckedGet(status) ELSE path
         failure == IF response.ok THEN StatusCheck(tok, status)
                    ELSE Exception(response.err, <<>>)
     IN /\ requests_sent' = IF path.ok THEN requests_sent + 1 ELSE requests_sent
        /\ error' = failure
        /\ pc' = IF failure = NoError THEN "reading" ELSE "raised"
  /\ UNCHANGED <<consumed, serval_reply_bytes, lines, broke, closed_early, result>>
  /\ UNCHANGED <<manifest_vars, table_vars, keyring_vars,
               object_vars, bundle_vars, meshms_vars>>

\* A mutant: every byte is counted as a newline.
Counted_EveryByte(c, n) == n + 1

\* if c == b'\n': lines += 1
Counted(c, n) == IF c = "\n" THEN n + 1 ELSE n

\* One turn of "for c in serval_stream.iter_content()".
ReadByte ==
  /\ pc = "reading"
  /\ consumed < Len(stream)
  /\ LET c == stream[consumed + 1]
         counted == Counted(c, lines)
         appended == Append(serval_reply_bytes, c)
         stop == StopCondition(method, c, counted, Len(appended))
     IN /\ consumed' = consumed + 1
        /\ lines' = counted
        /\ serval_reply_bytes' = IF stop THEN appended \o ClosingTokens ELSE appended
        /\ broke' = stop
        /\ pc' = IF stop THEN "loop_done" ELSE "reading"
  /\ UNCHANGED <<method, token, daemon_status, stream, requests_sent, closed_early,
                 result, error>>
  /\ UNCHANGED <<manifest_vars, table_vars, keyring_vars,
               object_vars, bundle_vars, meshms_vars>>

\* The iterator is exhausted: the daemon ended the poll, or the connection
\* was closed before the whole body arrived.
EndOfStream ==
  /\ pc = "reading"
  /\ pc' = "loop_done"
  /\ closed_early' = (consumed < Len(stream))
  /\ UNCHANGED <<method, token, daemon_status, stream, requests_sent, consumed,
                 serval_reply_bytes, lines, broke, result, error>>
  /\ UNCHANGED <<manifest_vars, table_vars, keyring_vars,
               object_vars, bundle_vars, meshms_vars>>

\* The connection breaks in the middle of the body: iter_content raises.
StreamBroken ==
  /\ pc = "reading"
  /\ consumed < Len(stream)
  /\ pc' = "raised"
  /\ error' = Exception("ChunkedEncodingError", <<>>)
  /\ closed_early' = TRUE
  /\ UNCHANGED <<method, token, daemon_status, stream, requests_sent, consumed,
                 serval_reply_bytes, lines, broke, result>>
  /\ UNCHANGED <<manifest_vars, table_vars, keyring_vars,
               object_vars, bundle_vars, meshms_vars>>

\* What follows json.loads in each call.
ParseReply(m, reply_json) ==
  IF m = "get_bundlelist_newsince"
  THEN _parse_bundlelist(reply_json)
  ELSE unmarshall(reply_json, "Message", MessageParams)

\* After the loop: b"".join, json.loads, and the objects of the rows.
ParseAndReturn ==
  /\ pc = "loop_done"
  /\ LET reply_json == json_loads(serval_reply_bytes)
         parsed == IF reply_json.ok THEN ParseReply(method, reply_json.val)
                   ELSE Raise("JSONDecodeError")
     IN /\ pc' = IF parsed.ok THEN "returned" ELSE "raised"
        /\ result' = parsed.val
        /\ error' = IF parsed.ok THEN NoError ELSE Exception(parsed.err, <<>>)
  /\ UNCHANGED <<method, token, daemon_status, stream, requests_sent, consumed,
                 serval_reply_bytes, lines, broke, closed_early>>
  /\ UNCHANGED <<manifest_vars, table_vars, keyring_vars,
               object_vars, bundle_vars, meshms_vars>>


(***************************************************************************)
(* Manifest.update, Manifest.autocast and LowLevelRhizome._format_params.  *)
(* The texts of the model hold no line break other than "\n".              *)
(***************************************************************************)
Letters ==
  {"a","b","c","d","e","f","g","h","i","j","k","l","m","n","o","p","q","r","s","t",
   "u","v","w","x","y","z","A","B","C","D","E","F","G","H","I","J","K","L","M","N",
   "O","P","Q","R","S","T","U","V","W","X","Y","Z"}

isalnum(text) == text # <<>> /\ \A i \in 1..Len(text) : text[i] \in Digits \cup Letters

\* The k-th smallest element of a set of integers.
NthOf(S, k) == CHOOSE i \in S : Cardinality({j \in S : j < i}) = k - 1

\* text.split(sep) for a separator of one character.
str_split(text, sep) ==
  LET S == {i \in 1..Len(text) : text[i] = sep}
      n == Cardinality(S)
      first(k) == IF k = 1 THEN 1 ELSE NthOf(S, k - 1) + 1
      last(k) == IF k = n + 1 THEN Len(text) ELSE NthOf(S, k) - 1
  IN [k \in 1..(n + 1) |-> SubSeq(text, first(k), last(k))]

\* text.splitlines(): the pieces between line breaks, without an empty piece
\* after the last line break.
splitlines(text) ==
  LET pieces == str_split(text, "\n")
  IN IF pieces[Len(pieces)] = <<>> THEN SubSeq(pieces, 1, Len(pieces) - 1) ELSE pieces

RECURSIVE StripZeros(_)
StripZeros(text) ==
  IF Len(text) > 1 /\ text[1] = "0" THEN StripZeros(Tail(text)) ELSE text

RECURSIVE StripTrailingZeros(_)
StripTrailingZeros(text) ==
  IF Len(text) > 1 /\ text[Len(text)] = "0"
  THEN StripTrailingZeros(SubSeq(text, 1, Len(text) - 1)) ELSE text

IsDigits(text) == text # <<>> /\ \A i \in 1..Len(text) : text[i] \in Digits

\* int(value), on texts of letters, digits, "." and "=": the digits' number,
\* or ValueError.
int(value) ==
  IF IsDigits(value) THEN Return(PyInt(StripZeros(value))) ELSE Raise("ValueError")

\* float(value) on the same texts: digits with at most one ".", at least one
\* digit; the value is held as its repr.
float(value) ==
  LET parts == str_split(value, ".")
      whole == IF parts[1] = <<>> THEN <<"0">> ELSE StripZeros(parts[1])
      frac == IF Len(parts) < 2 \/ parts[2] = <<>> THEN <<"0">>
              ELSE StripTrailingZeros(parts[2])
  IN IF /\ Len(parts) <= 2
        /\ \A k \in 1..Len(parts) : parts[k] = <<>> \/ IsDigits(parts[k])
        /\ \E k \in 1..Len(parts) : parts[k] # <<>>
     THEN Return(PyFloat(whole \o <<".">> \o frac))
     ELSE Raise("ValueError")

\* boolify(value) of the earlier source tree.
boolify(value) ==
  IF value \in {<<"t","r","u","e">>, <<"T","r","u","e">>} THEN Return(PyTrue)
  ELSE IF value \in {<<"f","a","l","s","e">>, <<"F","a","l","s","e">>} THEN Return(PyFalse)
  ELSE Raise("ValueError")

\* autocast(value) of the earlier source tree: int, float, boolify in turn,
\* the first that does not raise ValueError wins, else the string.
autocast(value) ==
  IF int(value).ok THEN int(value).val
  ELSE IF float(value).ok THEN float(value).val
  ELSE IF boolify(value).ok THEN boolify(value).val
  ELSE PyStr(value)

\* A mutant: every value goes through the earlier tree's autocast.
Manifest_autocast_Chain(field_name, value) == Return(autocast(value))

\* A mutant: no value is cast.
Manifest_autocast_NoCast(field_name, value) == Return(PyStr(value))

\* Manifest.autocast(field_name, value): self._types[field_name](value), the
\* value itself when _types has no such field (KeyError); a ValueError of
\* int() is not caught.
Manifest_autocast(field_name, value) ==
  IF HasKey(Manifest_types.v, PyStr(field_name)) THEN int(value)
  ELSE Return(PyStr(value))

\* A mutant: a line without "=" is taken as a key with an empty value.
UnpackKeyValue_Partition(parts) ==
  IF Len(parts) = 1 THEN Return(<<parts[1], <<>>>>)
  ELSE IF Len(parts) = 2 THEN Return(parts)
  ELSE Raise("ValueError")

\* "key, value = line.split("=")": the unpacking needs exactly two parts.
UnpackKeyValue(parts) ==
  IF Len(parts) = 2 THEN Return(parts) ELSE Raise("ValueError")

\* The loop of Manifest.update over the lines left, vals the mapping so far.
RECURSIVE UpdateLines(_, _)
UpdateLines(rest, vals) ==
  IF rest = <<>> THEN Return(vals)
  ELSE
    LET pair == UnpackKeyValue(str_split(rest[1], "="))
    IN IF ~pair.ok THEN [ok |-> FALSE, err |-> pair.err, val |-> vals]
       ELSE
         LET value == Manifest_autocast(pair.val[1], pair.val[2])
         IN IF ~value.ok THEN [ok |-> FALSE, err |-> value.err, val |-> vals]
            ELSE UpdateLines(Tail(rest),
                             DictSetItem(vals, PyStr(pair.val[1]), value.val))

\* A mutant: what was parsed is merged also when a line raised.
Manifest_update_Eager(self, text) ==
  LET pure_manifest == str_split(text, "NUL")[1]
      parsed == UpdateLines(splitlines(pure_manifest), <<>>)
  IN [ok |-> parsed.ok, err |-> parsed.err, values |-> parsed.val,
      self |-> DictUpdate(self, parsed.val)]

\* Manifest.update(response_data) on a manifest whose __dict__ is self: the
\* mapping is merged only after every line was read.
Manifest_update(self, text) ==
  LET pure_manifest == str_split(text, "NUL")[1]
      parsed == UpdateLines(splitlines(pure_manifest), <<>>)
  IN [ok |-> parsed.ok, err |-> parsed.err, values |-> parsed.val,
      self |-> IF parsed.ok THEN DictUpdate(self, parsed.val) ELSE self]

\* str(value) of a value that is no container.
str(value) == IF value = PyNone THEN <<"N", "o", "n", "e">> ELSE value.v

\* bool(value), and value == 0.
Truthy(value) ==
  CASE value.t = "None" -> FALSE
    [] value.t = "bool" -> value = PyTrue
    [] value.t = "int" -> value.v # <<"0">>
    [] value.t = "float" -> value.v # <<"0", ".", "0">>
    [] OTHER -> value.v # <<>>

\* A mutant: no value equals 0.
EqualsZero_Never(value) == FALSE

EqualsZero(value) ==
  \/ value = PyFalse
  \/ value.t = "int" /\ value.v = <<"0">>
  \/ value.t = "float" /\ value.v = <<"0", ".", "0">>

\* Manifest.fields(): the fields that are not None and whose name does not
\* start with "_".
IsField(pair) == pair[2] # PyNone /\ pair[1].v[1] # "_"

Manifest_fields(self) == SelectSeq(self, IsField)

\* Manifest.is_valid(): a service that is set must be alphanumeric.
is_valid(self) ==
  LET service == GetItem(self, PyStr(Str_service))
  IN IF Truthy(service) /\ ~isalnum(service.v)
     THEN Raise("InvalidManifestError") ELSE Return(TRUE)

\* "{}={}\n".format(key, value)
FormatLine(pair) == pair[1].v \o <<"=">> \o str(pair[2]) \o <<"\n">>

RECURSIVE FormatFields(_)
FormatFields(fields) ==
  IF fields = <<>> THEN <<>>
  ELSE (IF Truthy(fields[1][2]) \/ EqualsZero(fields[1][2])
        THEN FormatLine(fields[1]) ELSE <<>>)
       \o FormatFields(Tail(fields))

\* LowLevelRhizome._format_params: the manifest_header it builds.
_format_params(self) ==
  IF ~is_valid(self).ok THEN is_valid(self)
  ELSE Return(FormatFields(Manifest_fields(self)))

(***************************************************************************)
(* The calls that end in Manifest.update: Rhizome.new_bundle and           *)
(* Rhizome.new_journal, which send the manifest built by _format_params    *)
(* and read the daemon's completed manifest back, and                      *)
(* Rhizome._get_manifest.                                                  *)
(***************************************************************************)
Text_3 == <<"3">>
Text_0 == <<"0">>
Text_03 == <<"0", "3">>
Text_3_14 == <<"3", ".", "1", "4">>
Text_3_5 == <<"3", ".", "5">>
Text_True == <<"T", "r", "u", "e">>
Text_hello == <<"h", "e", "l", "l", "o">>
Text_a_eq_b == <<"a", "=", "b">>

\* Names and services given to new_bundle and new_journal.
Names == {<<"n">>, Text_a_eq_b}
Services == {<<>>, <<"f">>, <<"f", "-">>}

\* Keys and values of custom_manifest; tail is a field of every manifest.
CustomKeys == {<<"a">>, <<"b">>, Str_tail}
CustomValues == {Text_3, Text_0, <<"x">>}

\* The custom_manifest dicts of at most MaxCustom entries.
CustomManifests ==
  {pairs \in UNION {[1..n -> CustomKeys \X CustomValues] : n \in 0..MaxCustom} :
     \A i, j \in 1..Len(pairs) : i # j => pairs[i][1] # pairs[j][1]}

AsItems(pairs) == [i \in 1..Len(pairs) |-> <<PyStr(pairs[i][1]), PyStr(pairs[i][2])>>]

\* The signature bytes that follow the NUL.
Signatures == {<<>>, <<"s", "=", "\n", "g">>}

\* The manifest lines the daemon sends in a reply, and what ends the text.
CustomLineValues ==
  {Text_3, Text_0, Text_3_14, Text_3_5, Text_True, Text_hello, <<>>, Text_a_eq_b}
TailLineValues == {Text_3, Text_03, Text_hello}
ManifestLines ==
  {<<"a", "=">> \o v : v \in CustomLineValues}
    \cup {Str_tail \o <<"=">> \o v : v \in TailLineValues}
    \cup {<<>>, <<"x">>}
TextEnds == {<<>>} \cup {<<"NUL">> \o sig : sig \in Signatures}

RECURSIVE JoinLines(_)
JoinLines(ls) == IF ls = <<>> THEN <<>> ELSE ls[1] \o <<"\n">> \o JoinLines(Tail(ls))

ManifestTexts ==
  {JoinLines(ls) \o end :
     ls \in UNION {[1..n -> ManifestLines] : n \in 0..MaxLines}, end \in TextEnds}

\* What the daemon answers GET /restful/rhizome/BID.rhm with.
ManifestReplies ==
  {[status |-> status, text |-> <<>>] : status \in {401, 404}}
    \cup {[status |-> 200, text |-> text] : text \in ManifestTexts}

\* The daemon's answer to insert and append: the manifest it was sent,
\* completed with the fields it sets itself.
DaemonManifest(header) ==
  header \o <<"i", "d", "=", "A", "\n">> \o Str_version \o <<"=", "1", "\n">>

\* Manifest(name=, service=, sender=, recipient=, crypt=[, tail=0]) and the
\* custom fields put in its __dict__.
BuiltManifest(call, name, service, custom) ==
  LET given == <<(<<PyStr(Str_name), PyStr(name)>>),
                 (<<PyStr(Str_service), PyStr(service)>>),
                 (<<PyStr(Str_sender), PyStr(<<"S">>)>>),
                 (<<PyStr(Str_recipient), PyStr(<<>>)>>),
                 (<<PyStr(Str_crypt), PyInt(<<"0">>)>>)>>
      journal == IF call = "new_journal"
                 THEN <<(<<PyStr(Str_tail), PyInt(<<"0">>)>>)>> ELSE <<>>
  IN DictUpdate(DictUpdate(Manifest_init, given \o journal), AsItems(custom))

ManifestIdle ==
  /\ m_pc = "idle"
  /\ m_call = "none"
  /\ custom_manifest = <<>>
  /\ manifest_header = <<>>
  /\ response_data = <<>>
  /\ values = <<>>
  /\ manifest = <<>>
  /\ m_error = "none"
  /\ m_error_args = <<>>
  /\ m_requests = 0
  /\ m_status = 0
  /\ m_partial = PyNone
  /\ m_payload = PyNone
  /\ m_bid = <<>>

\* What the daemon answers POST /restful/rhizome/insert and append with.
PostStatuses == {201, 200, 401, 500}

\* A mutant: neither endpoint looks at tail.
WrongKind_Never(endpoint, tail) == endpoint = "none"

\* The tests of LowLevelRhizome.insert (tail is not None) and
\* LowLevelRhizome.append (tail is None) that raise JournalError.
WrongKind(endpoint, tail) ==
  IF endpoint = "insert" THEN tail # PyNone ELSE tail = PyNone

\* LowLevelRhizome.insert and LowLevelRhizome.append up to the request: the
\* JournalError (carrying is_journal), the error of _format_params, or the
\* manifest text to post.
LowLevelPost(endpoint, self) ==
  LET params == _format_params(self)
  IN IF WrongKind(endpoint, GetItem(self, PyStr(Str_tail)))
     THEN [ok |-> FALSE, err |-> "JournalError", args |-> <<endpoint = "insert">>,
           header |-> <<>>]
     ELSE IF ~params.ok
       THEN [ok |-> FALSE, err |-> params.err, args |-> <<>>, header |-> <<>>]
     ELSE [ok |-> TRUE, err |-> "none", args |-> <<>>, header |-> params.val]

\* Rhizome.insert (for new_bundle) and Rhizome.append (for new_journal) on
\* the manifest built, the daemon answering with status.
PostManifest(call, built, status, sig) ==
  LET endpoint == IF call = "new_bundle" THEN "insert" ELSE "append"
      tail == GetItem(built, PyStr(Str_tail))
      asserted == IF endpoint = "insert" THEN tail = PyNone ELSE tail # PyNone
      post == LowLevelPost(endpoint, built)
      response == CheckedGet(status)
      reply == DaemonManifest(post.header) \o <<"NUL">> \o sig
      updated == Manifest_update(Manifest_init, reply)
  IN IF ~asserted \/ ~post.ok
     THEN /\ m_pc' = "raised"
          /\ m_error' = IF ~asserted THEN "AssertionError" ELSE post.err
          /\ m_error_args' = IF ~asserted THEN <<>> ELSE post.args
          /\ manifest' = built
          /\ m_requests' = 0
          /\ UNCHANGED <<manifest_header, response_data, values>>
     ELSE IF ~response.ok \/ status \notin {200, 201}
       THEN /\ m_pc' = "raised"
            /\ m_error' = IF ~response.ok THEN response.err ELSE "RhizomeInsertionError"
            /\ m_error_args' = IF ~response.ok THEN <<>> ELSE <<status>>
            /\ manifest' = built
            /\ manifest_header' = post.header
            /\ m_requests' = 1
            /\ UNCHANGED <<response_data, values>>
     ELSE /\ manifest_header' = post.header
          /\ response_data' = reply
          /\ values' = updated.values
          /\ manifest' = updated.self
          /\ m_requests' = 1
          /\ m_pc' = IF updated.ok /\ status = 201 THEN "returned" ELSE "raised"
          /\ m_error' = IF ~updated.ok THEN updated.err
                        ELSE IF status = 200 THEN "DuplicateBundleException" ELSE "none"
          /\ m_error_args' = IF updated.ok /\ status = 200
                             THEN <<GetItem(updated.self, PyStr(Str_id))>> ELSE <<>>

\* Rhizome.new_bundle(name, service=, custom_manifest=)
NewBundle(name, service, custom, status, sig) ==
  /\ m_pc = "idle"
  /\ m_call' = "new_bundle"
  /\ custom_manifest' = custom
  /\ m_status' = status
  /\ UNCHANGED <<m_partial, m_payload, m_bid>>
  /\ PostManifest("new_bundle", BuiltManifest("new_bundle", name, service, custom),
                  status, sig)
  /\ UNCHANGED <<stream_vars, table_vars, keyring_vars,
               object_vars, bundle_vars, meshms_vars>>

\* Rhizome.new_journal(name, service=, custom_manifest=)
NewJournal(name, service, custom, status, sig) ==
  /\ m_pc = "idle"
  /\ m_call' = "new_journal"
  /\ custom_manifest' = custom
  /\ m_status' = status
  /\ UNCHANGED <<m_partial, m_payload, m_bid>>
  /\ PostManifest("new_journal", BuiltManifest("new_journal", name, service, custom),
                  status, sig)
  /\ UNCHANGED <<stream_vars, table_vars, keyring_vars,
               object_vars, bundle_vars, meshms_vars>>

\* The manifests handed to the low-level endpoints directly.
LowLevelManifests ==
  {DictUpdate(Manifest_init,
              <<(<<PyStr(Str_service), PyStr(service)>>), (<<PyStr(Str_tail), tail>>)>>) :
     service \in Services, tail \in {PyNone, PyInt(<<"0">>), PyInt(Text_3)}}

\* LowLevelRhizome.insert(manifest) and LowLevelRhizome.append(manifest, payload)
LowLevelCall(endpoint, self, status) ==
  /\ m_pc = "idle"
  /\ m_call' = endpoint
  /\ manifest' = self
  /\ m_status' = status
  /\ UNCHANGED <<m_partial, m_payload, m_bid>>
  /\ LET post == LowLevelPost(endpoint, self)
         response == CheckedGet(status)
     IN /\ manifest_header' = post.header
        /\ m_requests' = IF post.ok THEN 1 ELSE 0
        /\ m_pc' = IF post.ok /\ response.ok THEN "returned" ELSE "raised"
        /\ m_error' = IF ~post.ok THEN post.err
                      ELSE IF ~response.ok THEN response.err ELSE "none"
        /\ m_error_args' = post.args
  /\ UNCHANGED <<custom_manifest, response_data, values>>
  /\ UNCHANGED <<stream_vars, table_vars, keyring_vars,
               object_vars, bundle_vars, meshms_vars>>

\* The bundle ids looked up.
BundleIds == {<<"A">>, <<"B">>}

\* Rhizome._get_manifest(bid), the daemon answering with status and text.
GetManifest(bid, status, text) ==
  /\ m_pc = "idle"
  /\ m_call' = "_get_manifest"
  /\ m_requests' = 1
  /\ m_status' = status
  /\ m_bid' = bid
  /\ UNCHANGED <<m_partial, m_payload>>
  /\ LET updated == Manifest_update(Manifest_init, text)
         response == CheckedGet(status)
     IN IF ~response.ok \/ status = 404
        THEN /\ m_pc' = "raised"
             /\ m_error' = IF ~response.ok THEN response.err ELSE "ManifestNotFoundError"
             /\ m_error_args' = IF ~response.ok THEN <<>> ELSE <<bid>>
             /\ UNCHANGED <<response_data, values, manifest>>
        ELSE /\ response_data' = text
             /\ values' = updated.values
             /\ manifest' = updated.self
             /\ m_pc' = IF updated.ok THEN "returned" ELSE "raised"
             /\ m_error' = IF updated.ok THEN "none" ELSE updated.err
             /\ m_error_args' = <<>>
  /\ UNCHANGED <<custom_manifest, manifest_header>>
  /\ UNCHANGED <<stream_vars, table_vars, keyring_vars,
               object_vars, bundle_vars, meshms_vars>>

\* The payloads the daemon holds.
Payloads == {<<"p">>}

\* Rhizome.get_bundle(bid): _get_manifest(bid), then get_payload for the
\* bundle or journal made of the manifest, a second request that the daemon
\* answers with payload_status; 200 gives the payload, a status that
\* get_payload does not know gives UnknownRhizomeStatusError.
GetBundle(bid, status, text, payload_status, payload) ==
  /\ m_pc = "idle"
  /\ m_call' = "get_bundle"
  /\ m_bid' = bid
  /\ UNCHANGED m_partial
  /\ LET updated == Manifest_update(Manifest_init, text)
         response == CheckedGet(status)
         second == CheckedGet(payload_status)
     IN IF ~response.ok \/ status = 404 \/ ~updated.ok
        THEN /\ m_requests' = 1
             /\ m_status' = status
             /\ m_pc' = "raised"
             /\ m_error' = IF ~response.ok THEN response.err
                            ELSE IF status = 404 THEN "ManifestNotFoundError"
                            ELSE updated.err
             /\ m_error_args' = IF response.ok /\ status = 404 THEN <<bid>> ELSE <<>>
             /\ UNCHANGED <<response_data, values, manifest, m_payload>>
        ELSE /\ m_requests' = 2
             /\ m_status' = payload_status
             /\ response_data' = text
             /\ values' = updated.values
             /\ manifest' = updated.self
             /\ m_pc' = IF second.ok /\ payload_status = 200 THEN "returned" ELSE "raised"
             /\ m_error' = IF ~second.ok THEN second.err
                            ELSE IF payload_status = 200 THEN "none"
                            ELSE "UnknownRhizomeStatusError"
             /\ m_error_args' = <<>>
             /\ m_payload' = IF second.ok /\ payload_status = 200
                              THEN PyStr(payload) ELSE PyNone
  /\ UNCHANGED <<custom_manifest, manifest_header>>
  /\ UNCHANGED <<stream_vars, table_vars, keyring_vars,
               object_vars, bundle_vars, meshms_vars>>

(***************************************************************************)
(* Manifest of the earlier source tree: its update casts every value with  *)
(* autocast, and is_partial tells whether the manifest is complete.        *)
(***************************************************************************)
\* The fields a complete manifest has set.
CompleteFields == <<Str_id, Str_version, Str_filesize, Str_service, Str_date>>

\* A mutant: date is not looked at.
Manifest_is_partial_NoDate(self) ==
  \E n \in 1..4 : GetItem(self, PyStr(CompleteFields[n])) = PyNone

\* Manifest.is_partial()
Manifest_is_partial(self) ==
  \/ GetItem(self, PyStr(Str_id)) = PyNone
  \/ GetItem(self, PyStr(Str_version)) = PyNone
  \/ GetItem(self, PyStr(Str_filesize)) = PyNone
  \/ GetItem(self, PyStr(Str_service)) = PyNone
  \/ GetItem(self, PyStr(Str_date)) = PyNone

\* The loop of the earlier Manifest.update.
RECURSIVE LegacyUpdateLines(_, _)
LegacyUpdateLines(rest, vals) ==
  IF rest = <<>> THEN Return(vals)
  ELSE
    LET pair == UnpackKeyValue(str_split(rest[1], "="))
    IN IF ~pair.ok THEN [ok |-> FALSE, err |-> pair.err, val |-> vals]
       ELSE LegacyUpdateLines(Tail(rest),
                              DictSetItem(vals, PyStr(pair.val[1]), autocast(pair.val[2])))

\* The earlier Manifest.update(response_data).
LegacyManifest_update(self, text) ==
  LET pure_manifest == str_split(text, "NUL")[1]
      parsed == LegacyUpdateLines(splitlines(pure_manifest), <<>>)
  IN [ok |-> parsed.ok, err |-> parsed.err, values |-> parsed.val,
      self |-> IF parsed.ok THEN DictUpdate(self, parsed.val) ELSE self]

\* The earlier Manifest(...): the twelve fields, without _types.
LegacyManifest_init == SubSeq(Manifest_init, 1, Len(Manifest_init) - 1)

\* Values given to the constructor for the five fields, None for unset.
FieldValues == {PyNone, PyInt(<<"1">>), PyStr(<<>>)}

LegacyManifests ==
  {DictUpdate(LegacyManifest_init,
              [n \in 1..Len(CompleteFields) |-> <<PyStr(CompleteFields[n]), given[n]>>]) :
     given \in [1..Len(CompleteFields) -> FieldValues]}

\* The texts the earlier tree's manifest is updated with: one line and a NUL.
LegacyTexts ==
  {key \o <<"=">> \o value \o <<"\n", "NUL">> :
     key \in {Str_id, Str_version, Str_filesize, Str_service, Str_date, Str_name},
     value \in {<<"1">>, <<>>}}
    \cup {<<"x", "\n", "NUL">>}

ManifestBuilt ==
  /\ m_pc = "idle"
  /\ m_call = "Manifest"
  /\ custom_manifest = <<>>
  /\ manifest_header = <<>>
  /\ response_data = <<>>
  /\ values = <<>>
  /\ manifest \in LegacyManifests
  /\ m_error = "none"
  /\ m_error_args = <<>>
  /\ m_requests = 0
  /\ m_status = 0
  /\ m_partial = PyNone
  /\ m_payload = PyNone
  /\ m_bid = <<>>

\* manifest.update(response_data) on the manifest built
LegacyUpdate(text) ==
  /\ m_call \in {"Manifest", "update", "is_partial"}
  /\ m_call' = "update"
  /\ LET updated == LegacyManifest_update(manifest, text)
     IN /\ response_data' = text
        /\ values' = updated.values
        /\ manifest' = updated.self
        /\ m_pc' = IF updated.ok THEN "returned" ELSE "raised"
        /\ m_error' = IF updated.ok THEN "none" ELSE updated.err
  /\ m_partial' = PyNone
  /\ UNCHANGED <<m_payload, m_bid>>
  /\ UNCHANGED <<custom_manifest, manifest_header, m_error_args, m_requests, m_status>>
  /\ UNCHANGED <<stream_vars, table_vars, keyring_vars,
               object_vars, bundle_vars, meshms_vars>>

\* manifest.is_partial()
IsPartial ==
  /\ m_call \in {"Manifest", "update", "is_partial"}
  /\ m_call' = "is_partial"
  /\ m_pc' = "returned"
  /\ m_error' = "none"
  /\ m_partial' = IF Manifest_is_partial(manifest) THEN PyTrue ELSE PyFalse
  /\ UNCHANGED <<m_payload, m_bid>>
  /\ UNCHANGED <<custom_manifest, manifest_header, response_data, values, manifest,
                 m_error_args, m_requests, m_status>>
  /\ UNCHANGED <<stream_vars, table_vars, keyring_vars,
               object_vars, bundle_vars, meshms_vars>>

(***************************************************************************)
(* decode_json_table, applied to the JSON tables drawn at the start.       *)
(***************************************************************************)
ColumnNames == {PyStr(<<"a">>), PyStr(<<"b">>)}
Cells == {PyInt(<<"1">>), PyStr(<<"x">>)}

\* The objects json.loads can hand over: header and rows of at most MaxCols
\* entries and MaxTableRows rows, each key present or not.
JsonTables ==
  {PyDict((IF with_header THEN <<(<<PyStr(Str_header), PyList(header)>>)>> ELSE <<>>)
          \o (IF with_rows
              THEN <<(<<PyStr(Str_rows),
                        PyList([i \in 1..Len(rows) |-> PyList(rows[i])])>>)>>
              ELSE <<>>)) :
     header \in UNION {[1..n -> ColumnNames] : n \in 0..MaxCols},
     rows \in UNION {[1..n -> UNION {[1..k -> Cells] : k \in 0..MaxCols}] :
                       n \in 0..MaxTableRows},
     with_header \in BOOLEAN, with_rows \in BOOLEAN}

TableIdle ==
  /\ t_pc = "idle"
  /\ t_json = PyNone
  /\ t_data = <<>>
  /\ t_error = "none"

TableCalled ==
  /\ t_pc = "called"
  /\ t_json \in JsonTables
  /\ t_data = <<>>
  /\ t_error = "none"

\* decode_json_table(json)
DecodeJsonTable ==
  /\ t_pc = "called"
  /\ LET decoded == decode_json_table(t_json)
     IN /\ t_pc' = IF decoded.ok THEN "returned" ELSE "raised"
        /\ t_data' = decoded.val
        /\ t_error' = decoded.err
  /\ UNCHANGED t_json
  /\ UNCHANGED <<stream_vars, manifest_vars, keyring_vars,
               object_vars, bundle_vars, meshms_vars>>

\* The SID of the n-th identity the daemon creates; SidChars[MaxSids + 1] is
\* the SID of no identity.
SidChars == <<"A", "B", "C", "D", "E">>
Sid(n) == <<SidChars[n]>>
Sids == {Sid(n) : n \in 1..(MaxSids + 1)}

Repeat(c, n) == [i \in 1..n |-> c]

\* len(text.encode("utf-8")): "U+00E9" stands for a character of two bytes.
Utf8Length(text) ==
  Len(text) + Cardinality({i \in 1..Len(text) : text[i] = "U+00E9"})

Str_sid == <<"s", "i", "d">>
Str_identity == <<"i", "d", "e", "n", "t", "i", "t", "y">>
Str_did == <<"d", "i", "d">>

\* An identity as the daemon holds it.
Identity(sid, did, name) == [sid |-> sid, did |-> did, name |-> name]

\* Its JSON object: did and name only when they are set.
IdentityJson(id) ==
  PyDict(<<(<<PyStr(Str_sid), PyStr(id.sid)>>),
           (<<PyStr(Str_identity), PyStr(<<"I">> \o id.sid)>>)>>
         \o (IF id.did # <<>> THEN <<(<<PyStr(Str_did), PyStr(id.did)>>)>> ELSE <<>>)
         \o (IF id.name # <<>> THEN <<(<<PyStr(Str_name), PyStr(id.name)>>)>> ELSE <<>>))

\* Its row in identities.json: null for a did or name that is not set.
IdentityRow(id) ==
  PyList(<<PyStr(id.sid), PyStr(<<"I">> \o id.sid),
           IF id.did # <<>> THEN PyStr(id.did) ELSE PyNone,
           IF id.name # <<>> THEN PyStr(id.name) ELSE PyNone>>)

IdentitiesJson(ids) ==
  PyDict(<<(<<PyStr(Str_header),
              PyList(<<PyStr(Str_sid), PyStr(Str_identity), PyStr(Str_did),
                       PyStr(Str_name)>>)>>),
           (<<PyStr(Str_rows), PyList([i \in 1..Len(ids) |-> IdentityRow(ids[i])])>>)>>)

Request(verb, path, params) == [method |-> verb, path |-> path, params |-> params]
Response(status_code, body) ==
  [status_code |-> status_code, encoding |-> "None", body |-> body]

IndexOfSid(ids, sid) ==
  IF \E i \in 1..Len(ids) : ids[i].sid = sid
  THEN CHOOSE i \in 1..Len(ids) : ids[i].sid = sid ELSE 0

Without(ids, n) == SubSeq(ids, 1, n - 1) \o SubSeq(ids, n + 1, Len(ids))

\* The daemon's answer to a request and the identities it holds afterwards.
\* Wrong credentials get 401; a SID it does not hold gets 404; PATCH sets
\* the did and the name that the request's parameters name.
DaemonHandle(ids, created, authorized, request) ==
  LET path == request.path
      n == IF Len(path) >= 3 THEN IndexOfSid(ids, <<path[3]>>) ELSE 0
      same(response) == [keyring |-> ids, created |-> created, response |-> response]
      params == request.params
      patched ==
        IF n = 0 THEN ids[1]
        ELSE Identity(ids[n].sid,
                      IF HasKey(params, PyStr(Str_did))
                      THEN GetItem(params, PyStr(Str_did)).v ELSE ids[n].did,
                      IF HasKey(params, PyStr(Str_name))
                      THEN GetItem(params, PyStr(Str_name)).v ELSE ids[n].name)
      added ==
        Identity(Sid(created + 1),
                 IF HasKey(params, PyStr(Str_did))
                 THEN GetItem(params, PyStr(Str_did)).v ELSE <<>>,
                 IF HasKey(params, PyStr(Str_name))
                 THEN GetItem(params, PyStr(Str_name)).v ELSE <<>>)
      found(id) == PyDict(<<(<<PyStr(Str_identity), IdentityJson(id)>>)>>)
  IN IF ~authorized THEN same(Response(401, PyNone))
     ELSE IF path = <<"restful", "keyring", "identities.json">> /\ request.method = "GET"
       THEN same(Response(200, IdentitiesJson(ids)))
     ELSE IF path = <<"restful", "keyring", "add">> /\ request.method = "POST"
       THEN [keyring |-> Append(ids, added), created |-> created + 1,
             response |-> Response(201, found(added))]
     ELSE IF n = 0 THEN same(Response(404, PyNone))
     ELSE IF Len(path) = 3 /\ request.method = "GET"
       THEN same(Response(200, found(ids[n])))
     ELSE IF Len(path) = 3 /\ request.method = "DELETE"
       THEN [keyring |-> Without(ids, n), created |-> created,
             response |-> Response(200, found(ids[n]))]
     ELSE IF Len(path) = 3 /\ request.method = "PATCH"
       THEN [keyring |-> [ids EXCEPT ![n] = patched], created |-> created,
             response |-> Response(200, found(patched))]
     ELSE IF Len(path) = 4 /\ path[4] = "lock" /\ request.method = "PUT"
       THEN [keyring |-> Without(ids, n), created |-> created,
             response |-> Response(200, found(ids[n]))]
     ELSE same(Response(404, PyNone))

\* RestfulConnection.get, post, put, delete, patch: the response of
\* requests, its encoding set to utf-8 when it has none.
RestfulConnection_request(response) ==
  IF response.encoding = "None" THEN [response EXCEPT !.encoding = "utf-8"]
  ELSE response

\* A mutant: 404 is taken for wrong credentials as well.
CheckedConnection_request_404(response) ==
  IF response.status_code \in {401, 404}
  THEN Raise("UnauthorizedError")
  ELSE Return(response)

\* CheckedConnection.get, post, put, delete, patch on the response its
\* parent class returned.
CheckedConnection_request(response) ==
  IF response.status_code = 401
  THEN Raise("UnauthorizedError")
  ELSE Return(response)

\* One request sent through the connection, the daemon holding ids.
Exchange(ids, created, authorized, request) ==
  CHOOSE x \in
    {[keyring |-> handled.keyring, created |-> handled.created,
      entry |-> [request |-> request, response |-> handled.response],
      checked |-> CheckedConnection_request(RestfulConnection_request(handled.response))] :
       handled \in {DaemonHandle(ids, created, authorized, request)}} : TRUE

(***************************************************************************)
(* LowLevelKeyring: every method checks its arguments and then sends one   *)
(* request.  A method is modelled by the request it hands to the           *)
(* connection, or by the AssertionError it raises before.                  *)
(***************************************************************************)
KeyringPath(sid) == <<"restful", "keyring", sid[1]>>

\* A mutant: the did is measured in characters, not in bytes.
DidAccepted_Characters(did) ==
  /\ Len(did) > 4 \/ Len(did) = 0
  /\ Len(did) < 32

\* The two assertions on a did.
DidAccepted(did) ==
  /\ Len(did) > 4 \/ Len(did) = 0
  /\ Utf8Length(did) < 32

\* The assertion on a name.
NameAccepted(name) == Utf8Length(name) < 64

LowLevelKeyring_get_identities ==
  Return(Request("GET", <<"restful", "keyring", "identities.json">>, <<>>))

LowLevelKeyring_get_identity(sid) == Return(Request("GET", KeyringPath(sid), <<>>))

\* add(pin="", did, name): did and name are sent when they are not empty.
LowLevelKeyring_add(did, name) ==
  IF ~DidAccepted(did) \/ ~NameAccepted(name) THEN Raise("AssertionError")
  ELSE Return(Request("POST", <<"restful", "keyring", "add">>,
                (IF name # <<>> THEN <<(<<PyStr(Str_name), PyStr(name)>>)>> ELSE <<>>)
                \o (IF did # <<>> THEN <<(<<PyStr(Str_did), PyStr(did)>>)>> ELSE <<>>)))

LowLevelKeyring_delete(sid) == Return(Request("DELETE", KeyringPath(sid), <<>>))

LowLevelKeyring_lock(sid) ==
  Return(Request("PUT", KeyringPath(sid) \o <<"lock">>, <<>>))

\* set(sid, pin="", did, name): did and name are None or a string; they are
\* checked and sent when they are not None.
LowLevelKeyring_set(sid, did, name) ==
  IF did # PyNone /\ ~DidAccepted(did.v) THEN Raise("AssertionError")
  ELSE IF name # PyNone /\ ~NameAccepted(name.v) THEN Raise("AssertionError")
  ELSE Return(Request("PATCH", KeyringPath(sid),
                (IF did # PyNone THEN <<(<<PyStr(Str_did), did>>)>> ELSE <<>>)
                \o (IF name # PyNone THEN <<(<<PyStr(Str_name), name>>)>> ELSE <<>>)))

\* What a call has done: the daemon's identities afterwards, the requests
\* that were sent, and what the call returned or raised.
Outcome(ids, created, log, ok, err, args, val) ==
  [keyring |-> ids, created |-> created, log |-> log, ok |-> ok, err |-> err,
   args |-> args, val |-> val]

\* A mutant: the request is sent a second time.
Send_Twice(ids, created, authorized, lowlevel) ==
  IF ~lowlevel.ok
  THEN Outcome(ids, created, <<>>, FALSE, lowlevel.err, <<>>, <<>>)
  ELSE CHOOSE o \in
         {Outcome(x.keyring, x.created, <<first.entry, x.entry>>, x.checked.ok,
                  x.checked.err, <<>>, x.checked.val) :
            first \in {Exchange(ids, created, authorized, lowlevel.val)},
            x \in {Exchange(DaemonHandle(ids, created, authorized, lowlevel.val).keyring,
                            DaemonHandle(ids, created, authorized, lowlevel.val).created,
                            authorized, lowlevel.val)}} : TRUE

\* A low-level method called: no request when it raised, one otherwise.
Send(ids, created, authorized, lowlevel) ==
  IF ~lowlevel.ok
  THEN Outcome(ids, created, <<>>, FALSE, lowlevel.err, <<>>, <<>>)
  ELSE CHOOSE o \in
         {Outcome(x.keyring, x.created, <<x.entry>>, x.checked.ok, x.checked.err, <<>>,
                  x.checked.val) :
            x \in {Exchange(ids, created, authorized, lowlevel.val)}} : TRUE

(***************************************************************************)
(* Keyring and ServalIdentity.                                             *)
(***************************************************************************)
\* ServalIdentity(_keyring, sid, identity="", did="", name=""): None becomes
\* the empty string.
ServalIdentity(fields) ==
  LET text(key) ==
        IF HasKey(fields, PyStr(key)) /\ GetItem(fields, PyStr(key)) # PyNone
        THEN GetItem(fields, PyStr(key)).v ELSE <<>>
  IN [class |-> "ServalIdentity", sid |-> text(Str_sid), identity |-> text(Str_identity),
      did |-> text(Str_did), name |-> text(Str_name)]

\* ServalIdentity(self, **response.json()["identity"]).
IdentityOfReply(sent) ==
  IF sent.val.body.t # "dict"
  THEN [sent EXCEPT !.ok = FALSE, !.err = "JSONDecodeError", !.val = <<>>]
  ELSE IF ~HasKey(sent.val.body.v, PyStr(Str_identity))
    THEN [sent EXCEPT !.ok = FALSE, !.err = "KeyError", !.val = <<>>]
  ELSE [sent EXCEPT
          !.val = ServalIdentity(GetItem(sent.val.body.v, PyStr(Str_identity)).v)]

\* A mutant: a 404 is not looked at.
Keyring_found_Unchecked(sent, sid) ==
  CHOOSE o \in {IF ~s.ok THEN s ELSE IdentityOfReply(s) : s \in {sent}} : TRUE

\* What get_identity, delete, set, reset and lock do with the response:
\* IdentityNotFoundError(sid) on 404, the identity of the reply otherwise.
Keyring_found(sent, sid) ==
  CHOOSE o \in
    {IF ~s.ok THEN s
     ELSE IF s.val.status_code = 404
       THEN [s EXCEPT !.ok = FALSE, !.err = "IdentityNotFoundError", !.args = <<sid>>,
                      !.val = <<>>]
     ELSE IdentityOfReply(s) : s \in {sent}} : TRUE

Keyring_add(ids, created, authorized, did, name) ==
  CHOOSE o \in
    {IF ~sent.ok THEN sent
     ELSE IF sent.val.status_code = 400
       THEN [sent EXCEPT !.ok = FALSE, !.err = "MalformedRequestError", !.val = <<>>]
     ELSE IdentityOfReply(sent) :
       sent \in {Send(ids, created, authorized, LowLevelKeyring_add(did, name))}} : TRUE

IdentityParams ==
  {PyStr(Str_sid), PyStr(Str_identity), PyStr(Str_did), PyStr(Str_name)}

Keyring_get_identities(ids, created, authorized) ==
  CHOOSE o \in
    {IF ~sent.ok THEN sent
     ELSE IF sent.val.body.t # "dict"
       THEN [sent EXCEPT !.ok = FALSE, !.err = "JSONDecodeError", !.val = <<>>]
     ELSE CHOOSE listed \in
            {IF ~identities.ok
             THEN [sent EXCEPT !.ok = FALSE, !.err = identities.err, !.val = <<>>]
             ELSE [sent EXCEPT !.val = [i \in 1..Len(identities.val) |->
                                          ServalIdentity(identities.val[i].fields)]] :
               identities \in {unmarshall(sent.val.body, "ServalIdentity",
                                          IdentityParams)}} : TRUE :
       sent \in {Send(ids, created, authorized, LowLevelKeyring_get_identities)}} : TRUE

Keyring_get_identity(ids, created, authorized, sid) ==
  Keyring_found(Send(ids, created, authorized, LowLevelKeyring_get_identity(sid)), sid)

\* The identities get_or_create adds after the listing: it calls add() once
\* for each, and an exception of add() ends it.
RECURSIVE AddIdentities(_, _, _)
AddIdentities(listed, authorized, missing) ==
  IF missing <= 0 \/ ~listed.ok THEN listed
  ELSE CHOOSE o \in
         {AddIdentities(next, authorized, missing - 1) :
            next \in
              {Outcome(added.keyring, added.created, listed.log \o added.log, added.ok,
                       added.err, added.args,
                       IF added.ok THEN Append(listed.val, added.val) ELSE <<>>) :
                 added \in {Keyring_add(listed.keyring, listed.created, authorized,
                                        <<>>, <<>>)}}} : TRUE

\* A mutant: the whole list is returned.
FirstN_All(identities, n) == identities

\* identities[:n]
FirstN(identities, n) ==
  SubSeq(identities, 1, IF n < Len(identities) THEN n ELSE Len(identities))

Keyring_get_or_create(ids, created, authorized, n) ==
  CHOOSE o \in
    {IF ~filled.ok THEN filled ELSE [filled EXCEPT !.val = FirstN(filled.val, n)] :
       filled \in
         {AddIdentities(listed, authorized, n - Len(listed.val)) :
            listed \in {Keyring_get_identities(ids, created, authorized)}}} : TRUE

Keyring_delete(ids, created, authorized, sid) ==
  Keyring_found(Send(ids, created, authorized, LowLevelKeyring_delete(sid)), sid)

\* A mutant: an empty string is sent like any other.
EmptyAsNone_Sent(text) == PyStr(text)

\* if not len(did): did = None
EmptyAsNone(text) == IF Len(text) = 0 THEN PyNone ELSE PyStr(text)

Keyring_set(ids, created, authorized, sid, did, name) ==
  Keyring_found(
    Send(ids, created, authorized,
         LowLevelKeyring_set(sid, EmptyAsNone(did), EmptyAsNone(name))), sid)

\* if did: did = "" else: did = None
FlagAsText(flag) == IF flag THEN PyStr(<<>>) ELSE PyNone

Keyring_reset(ids, created, authorized, sid, did, name) ==
  Keyring_found(
    Send(ids, created, authorized,
         LowLevelKeyring_set(sid, FlagAsText(did), FlagAsText(name))), sid)

Keyring_lock(ids, created, authorized, sid) ==
  Keyring_found(Send(ids, created, authorized, LowLevelKeyring_lock(sid)), sid)

(***************************************************************************)
(* The calls made on the keyring.  Every action is one whole call: the     *)
(* requests it sent are in k_log, each with the daemon's answer.           *)
(***************************************************************************)
KeyringIdle ==
  /\ keyring = <<>>
  /\ sid_counter = 0
  /\ credentials_ok = TRUE
  /\ k_call = "none"
  /\ k_args = [sid |-> <<>>, did |-> PyNone, name |-> PyNone, n |-> 0]
  /\ k_before = <<>>
  /\ k_log = <<>>
  /\ k_pc = "idle"
  /\ k_result = <<>>
  /\ k_error = "none"
  /\ k_error_args = <<>>

\* A daemon without identities; the credentials are right or wrong.
KeyringEmpty ==
  /\ keyring = <<>>
  /\ sid_counter = 0
  /\ credentials_ok \in BOOLEAN
  /\ k_call = "none"
  /\ k_args = [sid |-> <<>>, did |-> PyNone, name |-> PyNone, n |-> 0]
  /\ k_before = <<>>
  /\ k_log = <<>>
  /\ k_pc = "idle"
  /\ k_result = <<>>
  /\ k_error = "none"
  /\ k_error_args = <<>>

Args(sid, did, name, n) == [sid |-> sid, did |-> did, name |-> name, n |-> n]

Called(call, args, outcome) ==
  \E o \in {outcome} :
    /\ k_call' = call
    /\ k_args' = args
    /\ k_before' = keyring
    /\ keyring' = o.keyring
    /\ sid_counter' = o.created
    /\ k_log' = o.log
    /\ k_pc' = IF o.ok THEN "returned" ELSE "raised"
    /\ k_result' = o.val
    /\ k_error' = o.err
    /\ k_error_args' = o.args
    /\ UNCHANGED credentials_ok
    /\ UNCHANGED <<stream_vars, manifest_vars, table_vars,
               object_vars, bundle_vars, meshms_vars>>

\* connection.get(path), .post(path), .put(path), .delete(path), .patch(path)
ConnectionRequest(verb, path) ==
  /\ verb = "POST" /\ path = <<"restful", "keyring", "add">> => sid_counter < MaxSids
  /\ Called(verb, Args(<<>>, PyNone, PyNone, 0),
            Send(keyring, sid_counter, credentials_ok,
                 Return(Request(verb, path, <<>>))))

LowLevelAdd(did, name) ==
  /\ sid_counter < MaxSids
  /\ Called("LowLevelKeyring.add", Args(<<>>, PyStr(did), PyStr(name), 0),
            Send(keyring, sid_counter, credentials_ok, LowLevelKeyring_add(did, name)))

LowLevelSet(sid, did, name) ==
  Called("LowLevelKeyring.set", Args(sid, did, name, 0),
         Send(keyring, sid_counter, credentials_ok, LowLevelKeyring_set(sid, did, name)))

Add(did, name) ==
  /\ sid_counter < MaxSids
  /\ Called("add", Args(<<>>, PyStr(did), PyStr(name), 0),
            Keyring_add(keyring, sid_counter, credentials_ok, did, name))

GetIdentities ==
  Called("get_identities", Args(<<>>, PyNone, PyNone, 0),
         Keyring_get_identities(keyring, sid_counter, credentials_ok))

GetIdentity(sid) ==
  Called("get_identity", Args(sid, PyNone, PyNone, 0),
         Keyring_get_identity(keyring, sid_counter, credentials_ok, sid))

GetOrCreate(n) ==
  /\ n > Len(keyring) => sid_counter + (n - Len(keyring)) <= MaxSids
  /\ Called("get_or_create", Args(<<>>, PyNone, PyNone, n),
            Keyring_get_or_create(keyring, sid_counter, credentials_ok, n))

Delete(sid) ==
  Called("delete", Args(sid, PyNone, PyNone, 0),
         Keyring_delete(keyring, sid_counter, credentials_ok, sid))

Set(sid, did, name) ==
  Called("set", Args(sid, PyStr(did), PyStr(name), 0),
         Keyring_set(keyring, sid_counter, credentials_ok, sid, did, name))

Reset(sid, did, name) ==
  Called("reset", Args(sid, IF did THEN PyTrue ELSE PyFalse,
                       IF name THEN PyTrue ELSE PyFalse, 0),
         Keyring_reset(keyring, sid_counter, credentials_ok, sid, did, name))

Lock(sid) ==
  Called("lock", Args(sid, PyNone, PyNone, 0),
         Keyring_lock(keyring, sid_counter, credentials_ok, sid))

\* ServalIdentity.set(did, name) of the identity object with the sid:
\* refresh() reads the identity, Keyring.set sends the values that are not
\* empty, and did and name of the object become the arguments.
ServalIdentity_set(ids, created, authorized, sid, did, name) ==
  CHOOSE o \in
    {IF ~refreshed.ok THEN refreshed
     ELSE CHOOSE p \in
            {Outcome(changed.keyring, changed.created, refreshed.log \o changed.log,
                     changed.ok, changed.err, changed.args,
                     IF changed.ok
                     THEN [refreshed.val EXCEPT !.did = did, !.name = name]
                     ELSE <<>>) :
               changed \in {Keyring_set(refreshed.keyring, refreshed.created, authorized,
                                        sid, did, name)}} : TRUE :
       refreshed \in {Keyring_get_identity(ids, created, authorized, sid)}} : TRUE

\* identity.set(did=did, name=name)
IdentitySet(sid, did, name) ==
  Called("ServalIdentity.set", Args(sid, PyStr(did), PyStr(name), 0),
         ServalIdentity_set(keyring, sid_counter, credentials_ok, sid, did, name))

\* The dids and names given to Keyring.add, set: empty, accepted, and a did
\* of four digits.
Dids == {<<>>, Repeat("1", 5), Repeat("2", 4)}
PersonNames == {<<>>, <<"n">>}

\* The paths requested through the connection itself.
Paths ==
  {<<"restful", "keyring", "identities.json">>, <<"restful", "keyring", "add">>}
  \cup {KeyringPath(sid) : sid \in Sids}
  \cup {KeyringPath(sid) \o <<"lock">> : sid \in Sids}

\* The dids and names at the limits of LowLevelKeyring: a did of 4, 5, 31
\* and 32 digits and of 16 characters of two bytes, a name of 63 and 64
\* bytes and of 32 characters of two bytes.
LimitDids ==
  {<<>>, Repeat("1", 4), Repeat("1", 5), Repeat("1", 31), Repeat("1", 32),
   Repeat("U+00E9", 16)}
LimitNames == {<<>>, Repeat("n", 63), Repeat("n", 64), Repeat("U+00E9", 32)}

(***************************************************************************)
(* Manifest.update and Manifest.__eq__ called on a manifest that holds     *)
(* values already.                                                         *)
(***************************************************************************)
ObjectIdle ==
  /\ o_pc = "idle"
  /\ o_call = "none"
  /\ o_self = <<>>
  /\ o_before = <<>>
  /\ o_arg = <<>>
  /\ o_values = <<>>
  /\ o_result = PyNone
  /\ o_error = "none"

\* Python's == on two values: bool and int compare as numbers, every other
\* pair of values by type and content.
AsNumber(value) ==
  IF value = PyTrue THEN <<"1">> ELSE IF value = PyFalse THEN <<"0">> ELSE value.v

PyEquals(a, b) ==
  IF a.t \in {"bool", "int"} /\ b.t \in {"bool", "int"}
  THEN AsNumber(a) = AsNumber(b)
  ELSE a = b

\* Manifest.__eq__(self, other), other a Manifest: every item of self has
\* its key in other, with an equal value.
Manifest_eq(self, other) ==
  \A i \in 1..Len(self) :
    /\ HasKey(other, self[i][1])
    /\ PyEquals(GetItem(other, self[i][1]), self[i][2])

\* The keyword arguments of the manifests given: name, tail and custom
\* fields, in the order they were given.
GivenFields ==
  {<<>>,
   <<(<<PyStr(Str_name), PyStr(<<"n">>)>>)>>,
   <<(<<PyStr(Str_name), PyStr(<<"m">>)>>)>>,
   <<(<<PyStr(Str_tail), PyInt(<<"0">>)>>)>>,
   <<(<<PyStr(Str_tail), PyFalse>>)>>,
   <<(<<PyStr(<<"a">>), PyStr(<<"x">>)>>)>>,
   <<(<<PyStr(<<"a">>), PyStr(<<"y">>)>>)>>,
   <<(<<PyStr(<<"b">>), PyStr(<<"x">>)>>)>>,
   <<(<<PyStr(<<"a">>), PyStr(<<"x">>)>>), (<<PyStr(<<"b">>), PyStr(<<"x">>)>>)>>,
   <<(<<PyStr(<<"b">>), PyStr(<<"x">>)>>), (<<PyStr(<<"a">>), PyStr(<<"x">>)>>)>>,
   <<(<<PyStr(Str_name), PyStr(<<"n">>)>>), (<<PyStr(<<"a">>), PyStr(<<"x">>)>>)>>}

\* Manifest(**fields)
GivenManifests == {DictUpdate(Manifest_init, fields) : fields \in GivenFields}

\* The texts given to update: lines that parse, and a line without "=", with
\* two "=" or with a version that is no integer, alone or after a line that
\* parses.
UpdateTexts ==
  {<<>>,
   <<"a", "=", "z", "\n">>,
   Str_name \o <<"=", "k", "\n", "a", "=", "z", "\n">>,
   <<"x", "\n">>,
   <<"a", "=", "z", "\n", "x", "\n">>,
   Str_name \o <<"=", "k", "\n", "a", "=", "b", "=", "c", "\n">>,
   <<"b", "=", "z", "\n">> \o Str_version \o <<"=", "q", "\n">>,
   <<"a", "=", "z", "\n", "NUL", "x", "\n">>,
   <<"x", "\n", "a", "=", "z", "\n">>}

ObjectGiven ==
  /\ o_pc = "given"
  /\ o_call = "Manifest"
  /\ o_self \in GivenManifests
  /\ o_before = <<>>
  /\ o_arg = <<>>
  /\ o_values = <<>>
  /\ o_result = PyNone
  /\ o_error = "none"

\* manifest.update(response_data)
Update(text) ==
  /\ o_pc = "given"
  /\ o_call' = "update"
  /\ o_before' = o_self
  /\ o_arg' = text
  /\ \E updated \in {Manifest_update(o_self, text)} :
       /\ o_self' = updated.self
       /\ o_values' = updated.values
       /\ o_pc' = IF updated.ok THEN "returned" ELSE "raised"
       /\ o_error' = updated.err
  /\ UNCHANGED o_result
  /\ UNCHANGED <<stream_vars, manifest_vars, table_vars,
               keyring_vars, bundle_vars, meshms_vars>>

\* manifest == other
Equals(other) ==
  /\ o_pc = "given"
  /\ o_call' = "__eq__"
  /\ o_before' = o_self
  /\ o_arg' = other
  /\ o_result' = IF Manifest_eq(o_self, other) THEN PyTrue ELSE PyFalse
  /\ o_pc' = "returned"
  /\ UNCHANGED <<o_self, o_values, o_error>>
  /\ UNCHANGED <<stream_vars, manifest_vars, table_vars,
               keyring_vars, bundle_vars, meshms_vars>>

(***************************************************************************)
(* Bundle and Journal: the objects Rhizome hands out, and the calls made   *)
(* on one of them.  Every action is one whole call; b_log holds the        *)
(* requests it sent.                                                       *)
(***************************************************************************)
NoBundle ==
  [class |-> "none", manifest |-> <<>>, payload |-> PyNone, bundle_id |-> PyNone,
   bundle_author |-> PyStr(<<>>), bundle_secret |-> PyStr(<<>>),
   from_here |-> PyInt(<<"0">>), complete |-> FALSE, token |-> PyNone]

BundleIdle ==
  /\ b_pc = "idle"
  /\ b_call = "none"
  /\ b_self = NoBundle
  /\ b_before = NoBundle
  /\ b_log = <<>>
  /\ b_result = PyNone
  /\ b_error = "none"

\* Bundle(rhizome, manifest=, bundle_id=manifest.id, from_here=, complete=) and
\* Journal(...) with the same arguments.
Bundle_init(class, manifest_, from_here, complete) ==
  [class |-> class, manifest |-> manifest_, payload |-> PyNone,
   bundle_id |-> GetItem(manifest_, PyStr(Str_id)),
   bundle_author |-> PyStr(<<>>), bundle_secret |-> PyStr(<<>>),
   from_here |-> from_here, complete |-> complete, token |-> PyNone]

\* A response: its status, the two Serval-Rhizome-Result headers
\* (headers.get gives None for a header that is absent) and its body.
Reply(status, bundle_status, payload_status, text) ==
  [status |-> status, bundle_status |-> bundle_status,
   payload_status |-> payload_status, text |-> text]

Sent(endpoint, reply) == [endpoint |-> endpoint, reply |-> reply]

\* What a call made of its object: whether it returned, the exception, the
\* object afterwards, the value returned and the requests sent.
Done(self, val, log) ==
  [ok |-> TRUE, err |-> "none", self |-> self, val |-> val, log |-> log]

Failed(err, self, log) ==
  [ok |-> FALSE, err |-> err, self |-> self, val |-> PyNone, log |-> log]

\* A mutant: the payload is always read from raw.bin.
PayloadEndpoint_Raw(manifest_) == "raw.bin"

\* Rhizome.get_payload: "if bundle.manifest.crypt == 1" chooses get_decrypted,
\* everything else get_raw.
PayloadEndpoint(manifest_) ==
  IF PyEquals(GetItem(manifest_, PyStr(Str_crypt)), PyInt(<<"1">>))
  THEN "decrypted.bin" ELSE "raw.bin"

\* The exception Rhizome.get_payload raises for a reply of the endpoint, or
\* none; 401 is raised by the connection before get_payload sees the reply.
PayloadError(endpoint, reply) ==
  IF ~CheckedGet(reply.status).ok THEN CheckedGet(reply.status).err
  ELSE IF reply.status = 200 THEN "none"
  ELSE IF reply.status = 404
    THEN IF reply.bundle_status = PyStr(<<"0">>) THEN "ManifestNotFoundError"
         ELSE IF /\ reply.bundle_status = PyStr(<<"1">>)
                 /\ reply.payload_status = PyStr(<<"1">>)
           THEN "PayloadNotFoundError"
         ELSE "UnknownRhizomeStatusError"
  ELSE IF reply.status = 419 /\ endpoint = "decrypted.bin" THEN "DecryptionError"
  ELSE "UnknownRhizomeStatusError"

\* Rhizome.get_payload(bundle), the daemon answering with reply.
Rhizome_get_payload(bundle, reply) ==
  CHOOSE o \in
    {[ok |-> err = "none", err |-> err,
      val |-> IF err = "none" THEN PyStr(reply.text) ELSE PyNone,
      log |-> <<Sent(PayloadEndpoint(bundle.manifest), reply)>>] :
       err \in {PayloadError(PayloadEndpoint(bundle.manifest), reply)}} : TRUE

\* Bundle.get_payload and Journal.get_payload: the payload read is kept.
Bundle_get_payload(self, reply) ==
  CHOOSE o \in
    {IF got.ok THEN Done([self EXCEPT !.payload = got.val], got.val, got.log)
     ELSE Failed(got.err, self, got.log) :
       got \in {Rhizome_get_payload(self, reply)}} : TRUE

\* Rhizome.insert and Rhizome.append (endpoint) of a manifest and a payload,
\* the daemon answering with status: the assertions, the low-level call,
\* and the Bundle or Journal made of the manifest in the reply, or the
\* exception of _handle_bundle_error.
PostOutcome(endpoint, post, payload, status) ==
  LET text == IF status \in {200, 201} THEN DaemonManifest(post.header) ELSE <<>>
      log == <<Sent(endpoint, Reply(status, PyNone, PyNone, text))>>
      class == IF endpoint = "insert" THEN "Bundle" ELSE "Journal"
  IN IF ~post.ok THEN Failed(post.err, NoBundle, <<>>)
     ELSE IF ~CheckedGet(status).ok THEN Failed(CheckedGet(status).err, NoBundle, log)
     ELSE IF status \notin {200, 201} THEN Failed("RhizomeInsertionError", NoBundle, log)
     ELSE CHOOSE o \in
            {IF ~updated.ok THEN Failed(updated.err, NoBundle, log)
             ELSE IF status = 200 THEN Failed("DuplicateBundleException", NoBundle, log)
             ELSE Done(Bundle_init(class, updated.self, PyInt(<<"2">>), FALSE),
                       PyNone, log) :
               updated \in {Manifest_update(Manifest_init, text)}} : TRUE

Rhizome_post(endpoint, manifest_, payload, status) ==
  LET tail == GetItem(manifest_, PyStr(Str_tail))
      asserted == /\ IF endpoint = "insert" THEN tail = PyNone ELSE tail # PyNone
                  /\ payload.t = "str"
  IN IF ~asserted THEN Failed("AssertionError", NoBundle, <<>>)
     ELSE CHOOSE o \in
            {PostOutcome(endpoint, post, payload, status) :
               post \in {LowLevelPost(endpoint, manifest_)}} : TRUE

\* self.manifest.filesize = None, filehash = None, version = None
Cleared(manifest_) ==
  DictUpdate(manifest_, <<(<<PyStr(Str_filesize), PyNone>>),
                          (<<PyStr(Str_filehash), PyNone>>),
                          (<<PyStr(Str_version), PyNone>>)>>)

\* A mutant: update does not look at the flag.
AssertComplete_Skipped(self) == TRUE

\* assert self.complete, "Pleas call 'refresh' before trying to update"
AssertComplete(self) == self.complete

\* Bundle.update() (payload is self.payload) and Journal.update(payload).
Bundle_update(self, payload, status) ==
  IF ~AssertComplete(self) THEN Failed("AssertionError", self, <<>>)
  ELSE CHOOSE o \in
         {IF new_self.ok
          THEN Done([self EXCEPT !.manifest = new_self.self.manifest], PyNone,
                    new_self.log)
          ELSE Failed(new_self.err, [self EXCEPT !.manifest = Cleared(self.manifest)],
                      new_self.log) :
            new_self \in {Rhizome_post(IF self.class = "Bundle" THEN "insert" ELSE "append",
                                       Cleared(self.manifest), payload, status)}} : TRUE

\* Bundle.update_payload(payload)
Bundle_update_payload(self, payload, status) ==
  Bundle_update([self EXCEPT !.payload = payload], payload, status)

\* Bundle.update_manifest(**kwargs)
Bundle_update_manifest(self, kwargs, status) ==
  Bundle_update([self EXCEPT !.manifest = DictUpdate(self.manifest, kwargs)],
                self.payload, status)

\* Rhizome._get_manifest(bid), the daemon answering with status and text.
Rhizome_get_manifest(bid, status, text) ==
  LET log == <<Sent("BID.rhm", Reply(status, PyNone, PyNone, text))>>
  IN IF ~CheckedGet(status).ok THEN Failed(CheckedGet(status).err, NoBundle, log)
     ELSE IF status = 404 THEN Failed("ManifestNotFoundError", NoBundle, log)
     ELSE CHOOSE o \in
            {IF updated.ok THEN Done(NoBundle, updated.self, log)
             ELSE Failed(updated.err, NoBundle, log) :
               updated \in {Manifest_update(Manifest_init, text)}} : TRUE

\* Bundle.refresh and Journal.refresh: the manifest is read, then the
\* payload, then complete is set.
Bundle_refresh(self, status, text, reply) ==
  CHOOSE o \in
    {IF ~got.ok THEN Failed(got.err, self, got.log)
     ELSE CHOOSE p \in
            {IF read.ok
             THEN Done([read.self EXCEPT !.complete = TRUE], PyNone, got.log \o read.log)
             ELSE Failed(read.err, read.self, got.log \o read.log) :
               read \in {Bundle_get_payload([self EXCEPT !.manifest = got.val], reply)}} :
            TRUE :
       got \in {Rhizome_get_manifest(self.bundle_id, status, text)}} : TRUE

\* Rhizome.get_bundle(bid): the object is made with complete=True, and its
\* payload read.
Rhizome_get_bundle(bid, status, text, reply) ==
  CHOOSE o \in
    {IF ~got.ok THEN got
     ELSE CHOOSE p \in
            {IF read.ok THEN Done(read.self, PyNone, got.log \o read.log)
             ELSE Failed(read.err, NoBundle, got.log \o read.log) :
               read \in {Bundle_get_payload(
                           Bundle_init(IF GetItem(got.val, PyStr(Str_tail)) = PyNone
                                       THEN "Bundle" ELSE "Journal",
                                       got.val, PyInt(<<"0">>), TRUE), reply)}} : TRUE :
       got \in {Rhizome_get_manifest(bid, status, text)}} : TRUE

\* Rhizome.new_bundle (insert) and Rhizome.new_journal (append): the object
\* of insert or append, with the payload given and complete set.
Rhizome_new(endpoint, manifest_, payload, status) ==
  CHOOSE o \in
    {IF ~made.ok THEN made
     ELSE Done([made.self EXCEPT !.payload = payload, !.complete = TRUE], PyNone,
               made.log) :
       made \in {Rhizome_post(endpoint, manifest_, payload, status)}} : TRUE

\* Bundle.clone(): insert of a copy of the manifest without id and BK; the
\* clone is what insert returns.
Bundle_clone(self, status) ==
  Rhizome_post("insert",
               DictUpdate(self.manifest, <<(<<PyStr(Str_id), PyNone>>),
                                           (<<PyStr(Str_BK), PyNone>>)>>),
               PyStr(<<>>), status)

\* Rhizome.get_bundlelist(), the daemon holding one bundle: the object of
\* its row.
Rhizome_get_bundlelist(row) ==
  CHOOSE o \in
    {IF parsed.ok THEN Done(parsed.val[1], PyNone, <<>>)
     ELSE Failed(parsed.err, NoBundle, <<>>) :
       parsed \in {_parse_bundlelist(json_loads(TableText(BundlelistHeader, <<row>>)).val)}} :
    TRUE

\* The manifests handed to insert and append, the payloads, the keyword
\* arguments of update_manifest, and the daemon's replies.
ObjectManifests ==
  {BuiltManifest(call, <<"n">>, <<>>, <<>>) : call \in {"new_bundle", "new_journal"}}
ObjectPayloads == {PyStr(<<"p">>), PyStr(<<"q">>)}
GivenPayloads == ObjectPayloads \cup {PyNone}
ManifestKwargs == {<<(<<PyStr(Str_name), PyStr(<<"m">>)>>)>>,
                   <<(<<PyStr(Str_tail), PyInt(<<"0">>)>>)>>}
UpdateStatuses == {201, 200, 401, 500}
StoredManifests ==
  {<<"i", "d", "=", "A", "\n">> \o Str_version \o <<"=", "2", "\n">> \o line :
     line \in {Str_crypt \o <<"=", "1", "\n">>, Str_tail \o <<"=", "0", "\n">>}}
ManifestAnswers ==
  {[status |-> 404, text |-> <<>>]}
    \cup {[status |-> 200, text |-> text] : text \in StoredManifests}
PayloadReplyStatuses == {200, 201, 401, 404, 419, 500}
StatusHeaders == {PyNone, PyStr(<<"0">>), PyStr(<<"1">>), PyStr(<<"2">>)}
PayloadReplies ==
  {Reply(404, bundle_status, payload_status, <<>>) :
     bundle_status \in StatusHeaders, payload_status \in StatusHeaders}
    \cup {Reply(status, code, code, IF status \in {200, 201} THEN <<"p">> ELSE <<>>) :
             status \in PayloadReplyStatuses \ {404}, code \in {PyNone, PyStr(<<"1">>)}}
\* The replies to the payload request of refresh and get_bundle.
RefreshReplies ==
  {Reply(200, PyNone, PyNone, <<"p">>), Reply(404, PyStr(<<"1">>), PyStr(<<"1">>), <<>>)}

\* A call made and ended with outcome: the object the caller holds
\* afterwards is the one the call changed or returned.
Ended(call, outcome) ==
  /\ b_call' = call
  /\ b_before' = b_self
  /\ b_self' = outcome.self
  /\ b_log' = outcome.log
  /\ b_result' = outcome.val
  /\ b_error' = outcome.err
  /\ b_pc' = IF outcome.ok THEN "returned" ELSE "raised"
  /\ UNCHANGED <<stream_vars, manifest_vars, table_vars,
               keyring_vars, object_vars, meshms_vars>>

\* A call on the object held keeps it when it raises.
Held == b_pc \in {"returned", "raised"} /\ b_self.class # "none"

\* bundle = rhizome.get_bundlelist()[0]
ListBundle(row) ==
  /\ b_pc = "idle"
  /\ \E o \in {Rhizome_get_bundlelist(row)} : Ended("get_bundlelist", o)

\* bundle = rhizome.insert(manifest, payload=payload)
InsertBundle(manifest_, payload, status) ==
  /\ b_pc = "idle"
  /\ \E o \in {Rhizome_post("insert", manifest_, payload, status)} : Ended("insert", o)

\* journal = rhizome.append(manifest, payload=payload)
AppendJournal(manifest_, payload, status) ==
  /\ b_pc = "idle"
  /\ \E o \in {Rhizome_post("append", manifest_, payload, status)} : Ended("append", o)

\* bundle = rhizome.new_bundle(name="n", payload=payload)
NewBundleObject(payload, status) ==
  /\ b_pc = "idle"
  /\ \E o \in {Rhizome_new("insert", BuiltManifest("new_bundle", <<"n">>, <<>>, <<>>),
                           payload, status)} : Ended("new_bundle", o)

\* journal = rhizome.new_journal(name="n", payload=payload)
NewJournalObject(payload, status) ==
  /\ b_pc = "idle"
  /\ \E o \in {Rhizome_new("append", BuiltManifest("new_journal", <<"n">>, <<>>, <<>>),
                           payload, status)} : Ended("new_journal", o)

\* bundle = rhizome.get_bundle("A")
GetBundleObject(status, text, reply) ==
  /\ b_pc = "idle"
  /\ \E o \in {Rhizome_get_bundle(PyStr(<<"A">>), status, text, reply)} :
       Ended("get_bundle", o)

\* bundle = bundle.clone()
CloneBundle(status) ==
  /\ Held
  /\ b_self.class = "Bundle"
  /\ \E o \in {Bundle_clone(b_self, status)} :
       Ended("clone", IF o.ok THEN o ELSE [o EXCEPT !.self = b_self])

\* bundle.update() and journal.update(payload)
UpdateObject(payload, status) ==
  /\ Held
  /\ b_self.class = "Bundle" => payload = b_self.payload
  /\ \E o \in {Bundle_update(b_self, payload, status)} : Ended("update", o)

\* bundle.update_payload(payload)
UpdatePayload(payload, status) ==
  /\ Held
  /\ b_self.class = "Bundle"
  /\ \E o \in {Bundle_update_payload(b_self, payload, status)} :
       Ended("update_payload", o)

\* bundle.update_manifest(**kwargs)
UpdateManifest(kwargs, status) ==
  /\ Held
  /\ b_self.class = "Bundle"
  /\ \E o \in {Bundle_update_manifest(b_self, kwargs, status)} :
       Ended("update_manifest", o)

\* bundle.refresh()
RefreshObject(status, text, reply) ==
  /\ Held
  /\ \E o \in {Bundle_refresh(b_self, status, text, reply)} : Ended("refresh", o)

\* bundle.get_payload()
GetPayload(reply) ==
  /\ Held
  /\ \E o \in {Bundle_get_payload(b_self, reply)} : Ended("get_payload", o)

(***************************************************************************)
(* MeshMS.send_message and MeshMS.message_list on one conversation.  The   *)
(* daemon puts a message in the conversation when it answers the POST      *)
(* with 200 or 201.                                                        *)
(***************************************************************************)
MeshMSIdle ==
  /\ ms_pc = "idle"
  /\ ms_call = "none"
  /\ ms_message = <<>>
  /\ ms_status = 0
  /\ ms_posts = 0
  /\ ms_stored = <<>>
  /\ ms_before = <<>>
  /\ ms_result = <<>>
  /\ ms_error = "none"

\* The messages sent and the daemon's answers.
MessageTexts == {<<>>, <<"a">>, <<"b">>}
SendStatuses == {200, 201, 401, 404, 500}
ListStatuses == {200, 500}

\* The row of the message list for a message of the text.
MessageRow(text) ==
  <<"[","\"",">","\"",",","\"","s","\"",",","\"","r","\"",",","1",",","1",",","\"","t",
    "\"",",","\"">> \o text
    \o <<"\"",",","t","r","u","e",",","f","a","l","s","e",",","1",",","n","u","l","l","]">>

\* A requests Response as a Python value.
PyResponse(status) == [t |-> "Response", v |-> <<status>>]

\* LowLevelMeshMS.send_message: the POST goes through the connection, which
\* raises for 401; the method has no return statement, so the caller gets
\* None whatever the daemon answered.
LowLevelMeshMS_send_message(status) ==
  IF ~CheckedGet(status).ok THEN CheckedGet(status) ELSE Return(PyNone)

\* result.status_code
status_code(response) ==
  IF response.t = "Response" THEN Return(response.v[1]) ELSE Raise("AttributeError")

\* MeshMS.send_message(sender, recipient, message): the exception it ends
\* with, or none, and the number of POSTs sent.
MeshMS_send_message(message, status) ==
  IF message = <<>> THEN [err |-> "AssertionError", posts |-> 0]
  ELSE CHOOSE o \in
         {IF ~posted.ok THEN [err |-> posted.err, posts |-> 1]
          ELSE CHOOSE p \in
                 {IF ~code.ok THEN [err |-> code.err, posts |-> 1]
                  ELSE IF code.val # 200 /\ code.val # 201
                    THEN [err |-> "RhizomeHTTPStatusError", posts |-> 1]
                  ELSE [err |-> "none", posts |-> 1] :
                    code \in {status_code(posted.val)}} : TRUE :
            posted \in {LowLevelMeshMS_send_message(status)}} : TRUE

\* MeshMS.message_list(sender, recipient), the daemon answering with status
\* and the table of the messages it holds.
MeshMS_message_list(stored, status) ==
  IF ~CheckedGet(status).ok THEN CheckedGet(status)
  ELSE IF status # 200 THEN Raise("RhizomeHTTPStatusError")
  ELSE CHOOSE o \in
         {IF result_json.ok THEN unmarshall(result_json.val, "Message", MessageParams)
          ELSE Raise("JSONDecodeError") :
            result_json \in
              {json_loads(TableText(MessagelistHeader,
                                    [i \in 1..Len(stored) |-> MessageRow(stored[i])]))}} :
         TRUE

\* meshms.send_message(sender, recipient, message)
SendMessage(message, status) ==
  /\ Len(ms_stored) < MaxMessages
  /\ ms_call' = "send_message"
  /\ ms_message' = message
  /\ ms_status' = status
  /\ ms_before' = ms_stored
  /\ \E o \in {MeshMS_send_message(message, status)} :
       /\ ms_posts' = o.posts
       /\ ms_error' = o.err
       /\ ms_pc' = IF o.err = "none" THEN "returned" ELSE "raised"
       /\ ms_stored' = IF o.posts = 1 /\ status \in {200, 201}
                       THEN <<message>> \o ms_stored ELSE ms_stored
  /\ UNCHANGED ms_result
  /\ UNCHANGED <<stream_vars, manifest_vars, table_vars,
                 keyring_vars, object_vars, bundle_vars>>

\* meshms.message_list(sender, recipient)
MessageList(status) ==
  /\ ms_call' = "message_list"
  /\ ms_message' = <<>>
  /\ ms_status' = status
  /\ ms_before' = ms_stored
  /\ ms_posts' = 0
  /\ \E o \in {MeshMS_message_list(ms_stored, status)} :
       /\ ms_result' = o.val
       /\ ms_error' = o.err
       /\ ms_pc' = IF o.ok THEN "returned" ELSE "raised"
  /\ UNCHANGED ms_stored
  /\ UNCHANGED <<stream_vars, manifest_vars, table_vars,
                 keyring_vars, object_vars, bundle_vars>>

vars ==
  <<stream_vars, manifest_vars, table_vars, keyring_vars, object_vars, bundle_vars,
    meshms_vars>>

InitStream == StreamIdle /\ ManifestIdle /\ TableIdle /\ KeyringIdle /\ ObjectIdle /\ BundleIdle
  /\ MeshMSIdle

InitManifest == StreamIdle /\ ManifestIdle /\ TableIdle /\ KeyringIdle /\ ObjectIdle /\ BundleIdle
  /\ MeshMSIdle

InitTable == StreamIdle /\ ManifestIdle /\ TableCalled /\ KeyringIdle /\ ObjectIdle /\ BundleIdle
  /\ MeshMSIdle

NextManifest ==
  \/ \E name \in Names, service \in Services, custom \in CustomManifests,
        status \in PostStatuses, sig \in Signatures :
          NewBundle(name, service, custom, status, sig)
  \/ \E name \in Names, service \in Services, custom \in CustomManifests,
        status \in PostStatuses, sig \in Signatures :
          NewJournal(name, service, custom, status, sig)
  \/ \E endpoint \in {"insert", "append"}, self \in LowLevelManifests,
        status \in PostStatuses : LowLevelCall(endpoint, self, status)
  \/ \E bid \in BundleIds, reply \in ManifestReplies :
        GetManifest(bid, reply.status, reply.text)

NextTable == DecodeJsonTable

InitPartial == StreamIdle /\ ManifestBuilt /\ TableIdle /\ KeyringIdle /\ ObjectIdle /\ BundleIdle
  /\ MeshMSIdle

NextPartial ==
  \/ \E text \in LegacyTexts : LegacyUpdate(text)
  \/ IsPartial

SpecPartial == InitPartial /\ [][NextPartial]_vars

SpecManifest == InitManifest /\ [][NextManifest]_vars

SpecTable == InitTable /\ [][NextTable]_vars

NextStream ==
  \/ \E tok \in Tokens, status \in Statuses, rows \in RowLists(BundleRows) :
       GetBundlelistNewsince(tok, status, rows)
  \/ \E tok \in Tokens, status \in Statuses, rows \in RowLists(MessageRows) :
       MessageListNewsince(tok, status, rows)
  \/ ReadByte
  \/ EndOfStream
  \/ StreamBroken
  \/ ParseAndReturn

SpecStream == InitStream /\ [][NextStream]_vars

InitKeyring == StreamIdle /\ ManifestIdle /\ TableIdle /\ KeyringEmpty /\ ObjectIdle /\ BundleIdle
  /\ MeshMSIdle

NextKeyring ==
  \/ \E verb \in {"GET", "POST", "PUT", "DELETE", "PATCH"}, path \in Paths :
        ConnectionRequest(verb, path)
  \/ \E did \in Dids, name \in PersonNames : Add(did, name)
  \/ GetIdentities
  \/ \E sid \in Sids : GetIdentity(sid)
  \/ \E n \in 0..MaxSids : GetOrCreate(n)
  \/ \E sid \in Sids : Delete(sid)
  \/ \E sid \in Sids, did \in Dids, name \in PersonNames : Set(sid, did, name)
  \/ \E sid \in Sids, did \in BOOLEAN, name \in BOOLEAN : Reset(sid, did, name)
  \/ \E sid \in Sids : Lock(sid)

SpecKeyring == InitKeyring /\ [][NextKeyring]_vars

\* A daemon holding one identity without did and name.
KeyringOfOne ==
  /\ keyring = <<Identity(Sid(1), <<>>, <<>>)>>
  /\ sid_counter = 1
  /\ credentials_ok \in BOOLEAN
  /\ k_call = "none"
  /\ k_args = [sid |-> <<>>, did |-> PyNone, name |-> PyNone, n |-> 0]
  /\ k_before = <<>>
  /\ k_log = <<>>
  /\ k_pc = "idle"
  /\ k_result = <<>>
  /\ k_error = "none"
  /\ k_error_args = <<>>

InitKeyringArgs == StreamIdle /\ ManifestIdle /\ TableIdle /\ KeyringOfOne /\ ObjectIdle /\ BundleIdle
  /\ MeshMSIdle

NextKeyringArgs ==
  \/ \E did \in LimitDids, name \in LimitNames : LowLevelAdd(did, name)
  \/ \E sid \in {Sid(1), Sid(MaxSids + 1)},
        did \in {PyNone} \cup {PyStr(text) : text \in LimitDids},
        name \in {PyNone} \cup {PyStr(text) : text \in LimitNames} :
          LowLevelSet(sid, did, name)

SpecKeyringArgs == InitKeyringArgs /\ [][NextKeyringArgs]_vars

\* What the daemon answers a looked-up bundle id with: wrong credentials,
\* no such bundle, a manifest, a manifest with a line without '='.
LookupReplies ==
  {[status |-> status, text |-> <<>>] : status \in {401, 404}}
    \cup {[status |-> 200, text |-> text] :
             text \in {<<"i", "d", "=", "A", "\n">>, <<"x", "\n">>}}

PayloadStatuses == {200, 401, 500}

\* The SID of the identity the daemon holds and a SID it never holds.
LookupSids == {Sid(1), Sid(MaxSids + 1)}

InitLookup == StreamIdle /\ ManifestIdle /\ TableIdle /\ KeyringOfOne /\ ObjectIdle /\ BundleIdle
  /\ MeshMSIdle

NextLookup ==
  \/ GetIdentities
  \/ \E sid \in LookupSids : GetIdentity(sid)
  \/ \E n \in 0..MaxSids : GetOrCreate(n)
  \/ \E sid \in LookupSids : Delete(sid)
  \/ \E sid \in LookupSids, did \in Dids : Set(sid, did, <<>>)
  \/ \E sid \in LookupSids, did \in BOOLEAN : Reset(sid, did, FALSE)
  \/ \E sid \in LookupSids : Lock(sid)
  \/ \E bid \in BundleIds, reply \in LookupReplies :
        GetManifest(bid, reply.status, reply.text)
  \/ \E bid \in BundleIds, reply \in LookupReplies, payload_status \in PayloadStatuses,
        payload \in Payloads :
          GetBundle(bid, reply.status, reply.text, payload_status, payload)

SpecLookup == InitLookup /\ [][NextLookup]_vars

InitObject == StreamIdle /\ ManifestIdle /\ TableIdle /\ KeyringIdle /\ ObjectGiven /\ BundleIdle
  /\ MeshMSIdle

NextObject ==
  \/ \E text \in UpdateTexts : Update(text)
  \/ \E other \in GivenManifests : Equals(other)

SpecObject == InitObject /\ [][NextObject]_vars

InitBundle ==
  StreamIdle /\ ManifestIdle /\ TableIdle /\ KeyringIdle /\ ObjectIdle /\ BundleIdle
  /\ MeshMSIdle

NextBundle ==
  \/ \E row \in {RowA, RowB} : ListBundle(row)
  \/ \E manifest_ \in ObjectManifests, payload \in GivenPayloads, status \in UpdateStatuses :
       InsertBundle(manifest_, payload, status)
  \/ \E manifest_ \in ObjectManifests, payload \in GivenPayloads, status \in UpdateStatuses :
       AppendJournal(manifest_, payload, status)
  \/ \E payload \in ObjectPayloads, status \in UpdateStatuses :
       NewBundleObject(payload, status)
  \/ \E payload \in ObjectPayloads, status \in UpdateStatuses :
       NewJournalObject(payload, status)
  \/ \E answer \in ManifestAnswers, reply \in RefreshReplies :
       GetBundleObject(answer.status, answer.text, reply)
  \/ \E status \in UpdateStatuses : CloneBundle(status)
  \/ \E payload \in GivenPayloads, status \in UpdateStatuses : UpdateObject(payload, status)
  \/ \E payload \in ObjectPayloads, status \in UpdateStatuses : UpdatePayload(payload, status)
  \/ \E kwargs \in ManifestKwargs, status \in UpdateStatuses : UpdateManifest(kwargs, status)
  \/ \E answer \in ManifestAnswers, reply \in RefreshReplies :
       RefreshObject(answer.status, answer.text, reply)
  \/ \E reply \in PayloadReplies : GetPayload(reply)

SpecBundle == InitBundle /\ [][NextBundle]_vars

InitMeshMS ==
  StreamIdle /\ ManifestIdle /\ TableIdle /\ KeyringIdle /\ ObjectIdle /\ BundleIdle
  /\ MeshMSIdle

NextMeshMS ==
  \/ \E message \in MessageTexts, status \in SendStatuses : SendMessage(message, status)
  \/ \E status \in ListStatuses : MessageList(status)

SpecMeshMS == InitMeshMS /\ [][NextMeshMS]_vars

InitIdentity ==
  StreamIdle /\ ManifestIdle /\ TableIdle /\ KeyringEmpty /\ ObjectIdle /\ BundleIdle
  /\ MeshMSIdle

NextIdentity ==
  \/ \E did \in Dids, name \in PersonNames : Add(did, name)
  \/ \E sid \in Sids, did \in Dids, name \in PersonNames : IdentitySet(sid, did, name)

SpecIdentity == InitIdentity /\ [][NextIdentity]_vars




(***************************************************************************)
(* Properties of the long-poll calls.                                      *)
(***************************************************************************)
Finished == pc \in {"returned", "raised"}

\* The rows of the daemon's complete table, parsed directly.
DirectRows == GetItem(json_loads(stream).val.v, PyStr(Str_rows)).v

\* Whether a row holds a "]" inside one of its strings.
HasInnerBracket(row) ==
  \E n \in 1..Len(row.v) :
    row.v[n].t = "str" /\ \E k \in 1..Len(row.v[n].v) : row.v[n].v[k] = "]"

\* The indexes of s at which a reader that has counted every newline up to
\* there sees "]" with nl newlines counted and more than size bytes taken.
StopIndexes(s, nl, size) ==
  {i \in (size + 1)..Len(s) :
     s[i] = "]" /\ Cardinality({k \in 1..i : s[k] = "\n"}) = nl}

\* The first of them among the bytes read so far, 0 when there is none.
FirstStop(nl, size) ==
  LET stops == StopIndexes(SubSeq(stream, 1, consumed), nl, size)
  IN IF stops = {} THEN 0 ELSE CHOOSE i \in stops : \A k \in stops : i <= k

FirstStopRead ==
  IF method = "get_bundlelist_newsince" THEN FirstStop(3, 157) ELSE FirstStop(5, 178)

C2_StopsAtFirstBracket ==
  IF broke
  THEN /\ FirstStopRead = consumed
       /\ serval_reply_bytes = SubSeq(stream, 1, consumed) \o <<"\n", "]", "\n", "}">>
  ELSE FirstStopRead = 0

\* The loop broke and left bytes of the body unread.
C2_Witness ==
  /\ pc = "loop_done"
  /\ broke
  /\ consumed < Len(stream)
  /\ serval_reply_bytes[consumed] = "]"

\* C3, for the status 404: the call raises InvalidTokenError with the token
\* and the reason, and reads no byte of the body.
C3_InvalidTokenOn404 ==
  (pc # "idle" /\ daemon_status = 404)
    => /\ pc = "raised"
       /\ error = Exception("InvalidTokenError", <<token, "Not Found">>)
       /\ consumed = 0

\* C4 as stated: a call whose stream ended before the loop's break raises.
C4_EndBeforeBreakRaises ==
  (Finished /\ daemon_status = 200 /\ requests_sent > 0 /\ ~broke)
    => pc = "raised" /\ result = <<>>

\* C4 as amended: a call whose stream ended before the loop's break raises,
\* unless the bytes received are the daemon's complete table without rows,
\* for which it returns the empty list; it never returns a row.
C4_NoPartialList ==
  (Finished /\ daemon_status = 200 /\ requests_sent > 0 /\ ~broke)
    => /\ result = <<>>
       /\ pc = "returned" =>
            /\ DirectRows = <<>>
            /\ serval_reply_bytes \in {stream, SubSeq(stream, 1, Len(stream) - 1)}

\* The connection went down inside the first row, and the call raised.
C4_Witness ==
  /\ pc = "raised"
  /\ error.type = "JSONDecodeError"
  /\ closed_early
  /\ ~broke
  /\ consumed > 157

(***************************************************************************)
(* Properties of Manifest.update and of the manifest round trip.           *)
(***************************************************************************)
\* The first index of character c in text, 0 when it has none.
FirstIndex(text, c) ==
  LET S == {i \in 1..Len(text) : text[i] = c}
  IN IF S = {} THEN 0 ELSE CHOOSE i \in S : \A k \in S : i <= k

CountOf(text, c) == Cardinality({i \in 1..Len(text) : text[i] = c})

\* The last call ended with what its Manifest.update ended with.
UpdateCalled ==
  /\ m_pc \in {"returned", "raised"}
  /\ m_call \in {"new_bundle", "new_journal", "_get_manifest"}
  /\ m_error \in {"none", "ValueError"}

\* The text before the first NUL of the text given to it, and its lines.
PureText ==
  IF FirstIndex(response_data, "NUL") = 0 THEN response_data
  ELSE SubSeq(response_data, 1, FirstIndex(response_data, "NUL") - 1)

TextLines == splitlines(PureText)

\* The key and the value of a line: what is before and after its first "=".
KeyOf(line) == SubSeq(line, 1, FirstIndex(line, "=") - 1)
ValueOf(line) == SubSeq(line, FirstIndex(line, "=") + 1, Len(line))

\* A well-formed line: an alphanumeric key, "=", and a value, which is a
\* number for the integer fields.
WellFormed(line) ==
  /\ FirstIndex(line, "=") > 0
  /\ isalnum(KeyOf(line))
  /\ KeyOf(line) \in IntFields => IsDigits(ValueOf(line))

\* Line i of lines ls is the last line of its key.
LastOfKey(ls, i) == \A j \in (i + 1)..Len(ls) : KeyOf(ls[j]) # KeyOf(ls[i])

\* C5 as stated: for a text of n well-formed lines with distinct keys, a NUL
\* and any suffix, Manifest.update returns and merges exactly n entries, the
\* same ones as for the text without the suffix (no entry for n = 0).
C5_MergesEveryLine ==
  LET ls == TextLines
  IN (/\ UpdateCalled
      /\ FirstIndex(response_data, "NUL") > 0
      /\ \A i \in 1..Len(ls) : WellFormed(ls[i]) /\ LastOfKey(ls, i))
       => /\ m_pc = "returned"
          /\ Len(values) = Len(ls)
          /\ manifest = DictUpdate(Manifest_init, values)
          /\ manifest = Manifest_update(Manifest_init, PureText \o <<"NUL">>).self

\* C6 as stated: a text whose lines all hold "=" is accepted, and every key
\* (the text before the line's first "=") gets the text after that "=".
C6_SplitsAtFirstEquals ==
  LET ls == TextLines
  IN (UpdateCalled /\ \A i \in 1..Len(ls) : WellFormed(ls[i]))
       => /\ m_pc = "returned"
          /\ \A i \in 1..Len(ls) :
               LastOfKey(ls, i) =>
                 /\ HasKey(values, PyStr(KeyOf(ls[i])))
                 /\ str(GetItem(values, PyStr(KeyOf(ls[i]))))
                      = IF KeyOf(ls[i]) \in IntFields
                        THEN StripZeros(ValueOf(ls[i])) ELSE ValueOf(ls[i])

\* C7: when a line of the text before the NUL holds no "=", Manifest.update
\* raises (ValueError) and merges nothing into the manifest.
C7_LineWithoutEqualsRaises ==
  LET ls == TextLines
  IN (UpdateCalled /\ \E i \in 1..Len(ls) : FirstIndex(ls[i], "=") = 0)
       => /\ m_pc = "raised"
          /\ m_error = "ValueError"
          /\ manifest = Manifest_init

\* The second of two lines has no "=", the first was read.
C7_Witness ==
  /\ m_pc = "raised"
  /\ Len(TextLines) = 2
  /\ FirstIndex(TextLines[2], "=") = 0
  /\ Len(values) = 1

IsCustom(key) == ~HasKey(Manifest_init, PyStr(key))

\* C9: when new_bundle or new_journal returns, every custom field was sent
\* as the line key=value and the manifest read back holds the string value
\* it was given.
C9_CustomFieldRoundTrip ==
  (m_call \in {"new_bundle", "new_journal"} /\ m_pc = "returned")
    => \A i \in 1..Len(custom_manifest) :
         LET key == custom_manifest[i][1]
             value == custom_manifest[i][2]
         IN (IsCustom(key) /\ isalnum(key) /\ isalnum(value))
              => /\ \E n \in 1..Len(splitlines(manifest_header)) :
                      splitlines(manifest_header)[n] = key \o <<"=">> \o value
                 /\ HasKey(manifest, PyStr(key))
                 /\ GetItem(manifest, PyStr(key)) = PyStr(value)

\* A custom field of digits only came back as the same string.
C9_Witness ==
  /\ m_call = "new_journal"
  /\ m_pc = "returned"
  /\ custom_manifest = <<(<<(<<"a">>), Text_3>>)>>
  /\ GetItem(manifest, PyStr(<<"a">>)) = PyStr(Text_3)

(***************************************************************************)
(* Properties of decode_json_table.                                        *)
(***************************************************************************)
TableHeader == GetItem(t_json.v, PyStr(Str_header)).v
TableRows == GetItem(t_json.v, PyStr(Str_rows)).v

\* The table has a header of unique names and rows of len(header) entries.
RegularTable ==
  /\ HasKey(t_json.v, PyStr(Str_header))
  /\ HasKey(t_json.v, PyStr(Str_rows))
  /\ \A i, j \in 1..Len(TableHeader) : i # j => TableHeader[i] # TableHeader[j]
  /\ \A i \in 1..Len(TableRows) : Len(TableRows[i].v) = Len(TableHeader)

\* C10: for such a table decode_json_table returns one mapping per row, in
\* row order, and mapping i sends header[j] to rows[i][j] for every column j
\* and holds nothing else.
C10_OneMappingPerRow ==
  (t_pc \in {"returned", "raised"} /\ RegularTable)
    => /\ t_pc = "returned"
       /\ Len(t_data) = Len(TableRows)
       /\ \A i \in 1..Len(TableRows) :
            /\ Len(t_data[i]) = Len(TableHeader)
            /\ \A j \in 1..Len(TableHeader) :
                 /\ HasKey(t_data[i], TableHeader[j])
                 /\ GetItem(t_data[i], TableHeader[j]) = TableRows[i].v[j]

\* A table of two columns and two different rows was decoded.
C10_Witness ==
  /\ t_pc = "returned"
  /\ RegularTable
  /\ Len(TableHeader) = 2
  /\ Len(TableRows) = 2
  /\ TableRows[1] # TableRows[2]
  /\ TableRows[1].v[1] # TableRows[1].v[2]

\* A mapping written back as a row: its values, read by the names of the
\* header in order.
EncodeRow(mapping, header) == [j \in 1..Len(header) |-> GetItem(mapping, header[j])]

\* C11: for a header of unique names and rows of len(header) entries,
\* decoding and writing every mapping back as a row gives the rows the table
\* had, in their order.
C11_DecodeEncodeRoundTrip ==
  (t_pc \in {"returned", "raised"} /\ RegularTable)
    => /\ t_pc = "returned"
       /\ \A i \in 1..Len(t_data) : \A j \in 1..Len(TableHeader) :
            HasKey(t_data[i], TableHeader[j])
       /\ [i \in 1..Len(t_data) |-> PyList(EncodeRow(t_data[i], TableHeader))] = TableRows

\* A table of two columns whose second row differs from the first in both
\* cells was decoded.
C11_Witness ==
  /\ t_pc = "returned"
  /\ RegularTable
  /\ Len(TableHeader) = 2
  /\ Len(TableRows) = 2
  /\ TableRows[1].v[1] # TableRows[2].v[1]
  /\ TableRows[1].v[2] # TableRows[2].v[2]
  /\ Len(t_data) = 2

(***************************************************************************)
(* Properties of insert and append.                                        *)
(***************************************************************************)
\* The id of the manifest the daemon answered with.
ResponseId ==
  LET ls == TextLines
  IN ValueOf(ls[CHOOSE i \in 1..Len(ls) : KeyOf(ls[i]) = Str_id])

\* C12 as stated: when the daemon answers insert or append with 200, the
\* call raises DuplicateBundleException carrying the id of the response
\* manifest.
C12_DuplicateOn200 ==
  (m_call \in {"new_bundle", "new_journal"} /\ m_requests = 1 /\ m_status = 200)
    => /\ m_pc = "raised"
       /\ m_error = "DuplicateBundleException"
       /\ m_error_args = <<PyStr(ResponseId)>>

C19_PartialIffFieldUnset ==
  m_partial # PyNone
    => (m_partial = PyTrue) = (\E n \in 1..Len(CompleteFields) :
                                GetItem(manifest, PyStr(CompleteFields[n])) = PyNone)

\* A manifest built without date was completed by an update and is reported
\* complete.
C19_Witness ==
  /\ m_call = "is_partial"
  /\ m_partial = PyFalse
  /\ response_data = Str_date \o <<"=", "1", "\n", "NUL">>

(***************************************************************************)
(* Properties of the connection and of the keyring.                        *)
(***************************************************************************)
ConnectionCalled == k_call \in {"GET", "POST", "PUT", "DELETE", "PATCH"}

\* C14: each of CheckedConnection.get, post, put, delete and patch sends
\* exactly one request, with its own method; it raises UnauthorizedError
\* exactly when the daemon answered 401, and otherwise returns the response
\* its parent class returned, which is the daemon's with the encoding set.
C14_OneRequestUnauthorizedIff401 ==
  ConnectionCalled =>
    /\ Len(k_log) = 1
    /\ k_log[1].request.method = k_call
    /\ (k_pc = "raised") <=> (k_log[1].response.status_code = 401)
    /\ k_pc = "raised" => k_error = "UnauthorizedError"
    /\ k_pc = "returned" =>
         /\ k_result = RestfulConnection_request(k_log[1].response)
         /\ k_result.status_code = k_log[1].response.status_code
         /\ k_result.body = k_log[1].response.body

\* C14 witness: a request through the connection was answered 401 and the
\* call raised UnauthorizedError after that one request.
C14_Witness ==
  /\ ConnectionCalled
  /\ Len(k_log) = 1
  /\ k_log[1].response.status_code = 401
  /\ k_error = "UnauthorizedError"

LowLevelCalled == k_call \in {"LowLevelKeyring.add", "LowLevelKeyring.set"}

\* The did or name of the call, None or a string, is one the claim has refused.
DidRefused(did) ==
  did # PyNone /\ ((Len(did.v) > 0 /\ Len(did.v) < 5) \/ Utf8Length(did.v) >= 32)

NameRefused(name) == name # PyNone /\ Utf8Length(name.v) >= 64

\* C16: LowLevelKeyring.add and LowLevelKeyring.set raise without sending a
\* request when the did is not empty and shorter than 5 characters, when the
\* did has 32 or more UTF-8 bytes, or when the name has 64 or more UTF-8
\* bytes; for every other did and name they send exactly one request, which
\* carries that did and name.
C16_RefusedBeforeRequest ==
  LowLevelCalled =>
    IF DidRefused(k_args.did) \/ NameRefused(k_args.name)
    THEN /\ k_pc = "raised"
         /\ k_error = "AssertionError"
         /\ k_log = <<>>
         /\ keyring = k_before
    ELSE /\ Len(k_log) = 1
         /\ k_error # "AssertionError"
         /\ k_log[1].request.method =
              (IF k_call = "LowLevelKeyring.add" THEN "POST" ELSE "PATCH")

\* C16 witness: a did of 16 characters and 32 bytes was refused without a
\* request.
C16_Witness ==
  /\ LowLevelCalled
  /\ k_args.did = PyStr(Repeat("U+00E9", 16))
  /\ ~NameRefused(k_args.name)
  /\ k_error = "AssertionError"
  /\ k_log = <<>>

\* The ServalIdentity of an identity the daemon holds.
AsServalIdentity(id) ==
  [class |-> "ServalIdentity", sid |-> id.sid, identity |-> <<"I">> \o id.sid,
   did |-> id.did, name |-> id.name]

Min(a, b) == IF a < b THEN a ELSE b
Max(a, b) == IF a > b THEN a ELSE b

\* C17: with the right credentials get_or_create(n), the keyring holding m
\* unlocked identities, returns exactly n identities: the first min(n, m)
\* of the listing in its order, then max(0, n - m) identities that it added
\* and that were not in the keyring before; the keyring keeps its m
\* identities and gains only those, none when m >= n.
C17_FirstNThenNew ==
  k_call = "get_or_create" /\ credentials_ok =>
    LET n == k_args.n
        m == Len(k_before)
    IN /\ k_pc = "returned"
       /\ Len(k_result) = n
       /\ \A i \in 1..Min(n, m) : k_result[i] = AsServalIdentity(k_before[i])
       /\ Len(keyring) = Max(n, m)
       /\ SubSeq(keyring, 1, m) = k_before
       /\ \A i \in (m + 1)..n :
            /\ k_result[i] = AsServalIdentity(keyring[i])
            /\ \A j \in 1..m : k_before[j].sid # keyring[i].sid
       /\ m >= n => keyring = k_before

\* C17 witness: get_or_create(n) returned, the keyring holding at least one
\* identity and fewer than n.
C17_Witness ==
  /\ k_call = "get_or_create"
  /\ k_pc = "returned"
  /\ Len(k_before) > 0
  /\ k_args.n > Len(k_before)
  /\ Len(k_result) = k_args.n

\* The requests of the last call that carry a parameter of this name.
Carrying(key) ==
  {i \in 1..Len(k_log) : HasKey(k_log[i].request.params, PyStr(key))}

\* C18: Keyring.set sends a did (a name) exactly when the argument is not
\* empty, and the stored did (name) of the identity is the argument when
\* that is not empty and the call returned, and what it was before
\* otherwise; Keyring.reset, when it returns, leaves the empty string in
\* the flagged fields and the stored value in the others; neither touches
\* another identity, and a call that raised changed nothing.
C18_SetAndResetFrame ==
  k_call \in {"set", "reset"} =>
    LET i == IndexOfSid(k_before, k_args.sid)
        given(arg) == IF k_call = "set" THEN arg.v # <<>> ELSE arg = PyTrue
        value(arg) == IF k_call = "set" THEN arg.v ELSE <<>>
    IN /\ Len(keyring) = Len(k_before)
       /\ \A j \in 1..Len(keyring) : j # i => keyring[j] = k_before[j]
       /\ k_pc = "raised" => keyring = k_before
       /\ ~given(k_args.did) => Carrying(Str_did) = {}
       /\ ~given(k_args.name) => Carrying(Str_name) = {}
       /\ k_log # <<>> /\ given(k_args.did) => Carrying(Str_did) = {1}
       /\ k_log # <<>> /\ given(k_args.name) => Carrying(Str_name) = {1}
       /\ i > 0 =>
            /\ keyring[i].sid = k_before[i].sid
            /\ keyring[i].did =
                 (IF given(k_args.did) /\ k_pc = "returned"
                  THEN value(k_args.did) ELSE k_before[i].did)
            /\ keyring[i].name =
                 (IF given(k_args.name) /\ k_pc = "returned"
                  THEN value(k_args.name) ELSE k_before[i].name)

\* C18 witness: set with a did and an empty name returned for an identity
\* that had a name, which it still has.
C18_Witness ==
  /\ k_call = "set"
  /\ k_pc = "returned"
  /\ k_args.did.v # <<>>
  /\ k_args.name.v = <<>>
  /\ LET i == IndexOfSid(k_before, k_args.sid)
     IN /\ i > 0
        /\ k_before[i].name # <<>>
        /\ keyring[i].name = k_before[i].name
        /\ keyring[i].did = k_args.did.v

LookupCalled == k_call \in {"get_identity", "delete", "set", "reset", "lock"}

Succeeded(response) == response.status_code \in {200, 201}

C30_CounterAndAccumulator ==
  LET read == SubSeq(stream, 1, consumed)
  IN /\ lines = CountOf(read, "\n")
     /\ ~broke => /\ serval_reply_bytes = read
                  /\ lines = CountOf(serval_reply_bytes, "\n")
     /\ broke => /\ pc # "reading"
                 /\ serval_reply_bytes = read \o ClosingTokens

\* C30 witness: the loop is reading the first row, three newlines counted.
C30_Witness ==
  /\ pc = "reading"
  /\ lines = 3
  /\ consumed > 157
  /\ Len(serval_reply_bytes) = consumed

\* The call was answered 200 with the table without rows and the stream was
\* read to its end.
NoRowsRead ==
  /\ Finished
  /\ daemon_status = 200
  /\ stream \in {TableText(BundlelistHeader, <<>>), TableText(MessagelistHeader, <<>>)}
  /\ ~closed_early

\* C27: for a stream that carries no row the call returns the empty list,
\* the loop never having broken, so that the parser is given the daemon's
\* bytes and no second closing bracket.
C27_EmptyListForNoRows ==
  NoRowsRead =>
    /\ pc = "returned"
    /\ result = <<>>
    /\ ~broke
    /\ serval_reply_bytes = stream

(***************************************************************************)
(* Properties of the manifest objects.                                     *)
(***************************************************************************)
\* The manifest in the state is the one whose text was sent.
ManifestSent ==
  /\ m_requests = 1
  /\ \/ m_call \in {"insert", "append"}
     \/ /\ m_call \in {"new_bundle", "new_journal"}
        /\ m_error \in {"UnauthorizedError", "RhizomeInsertionError"}

\* A field the claim has in the text: public, neither None nor "".
IsSentField(pair) ==
  /\ pair[2] # PyNone
  /\ pair[2] # PyStr(<<>>)
  /\ pair[1].v[1] # "_"

\* C23: the manifest text sent by insert and append is one line key=value,
\* ended by a newline, for each field of the manifest that is neither None
\* nor the empty string and whose name does not start with "_", in the
\* order of the fields; a field that is the number 0 has its line.
C23_LinesOfSetFields ==
  ManifestSent =>
    LET sent == SelectSeq(manifest, IsSentField)
    IN /\ splitlines(manifest_header) =
            [i \in 1..Len(sent) |-> sent[i][1].v \o <<"=">> \o sent[i][2].v]
       /\ manifest_header # <<>> => manifest_header[Len(manifest_header)] = "\n"
       /\ CountOf(manifest_header, "\n") = Len(sent)

\* C23 witness: append sent a manifest whose tail is 0 and whose service is
\* the empty string: the text has the line tail=0 and no line of service.
C23_Witness ==
  /\ ManifestSent
  /\ m_call = "append"
  /\ GetItem(manifest, PyStr(Str_tail)) = PyInt(<<"0">>)
  /\ GetItem(manifest, PyStr(Str_service)) = PyStr(<<>>)
  /\ manifest_header = Str_tail \o <<"=", "0", "\n">>

\* Every field of the one manifest is a field of the other, with an equal
\* value.
AllFieldsEqual(a, b) ==
  /\ Keys(a) = Keys(b)
  /\ \A k \in Keys(a) : PyEquals(GetItem(a, k), GetItem(b, k))

\* C22: manifest == other is true exactly when the two manifests have the
\* same fields with equal values, and other == manifest gives the same
\* answer.
C22_EqualIffAllFieldsEqual ==
  o_call = "__eq__" =>
    /\ (o_result = PyTrue) <=> AllFieldsEqual(o_self, o_arg)
    /\ (o_result = PyTrue) <=> Manifest_eq(o_arg, o_self)

\* C26: an update that raised has merged nothing: the manifest is what it
\* was before the call, also when lines before the bad one were parsed.
C26_FailedUpdateMergesNothing ==
  o_call = "update" /\ o_pc = "raised" => o_self = o_before

\* C26 witness: update raised on the second line, the first parsed to a
\* value that differs from the manifest's, which the manifest still has.
C26_Witness ==
  /\ o_call = "update"
  /\ o_pc = "raised"
  /\ HasKey(o_values, PyStr(Str_name))
  /\ GetItem(o_before, PyStr(Str_name)) = PyStr(<<"n">>)
  /\ GetItem(o_values, PyStr(Str_name)) = PyStr(<<"k">>)
  /\ GetItem(o_self, PyStr(Str_name)) = PyStr(<<"n">>)

(***************************************************************************)
(* C21.  Rhizome.get_payload, called through Bundle.get_payload.           *)
(***************************************************************************)
PayloadReply == b_log[1].reply

CryptIsOne == PyEquals(GetItem(b_before.manifest, PyStr(Str_crypt)), PyInt(<<"1">>))

NotFoundError(reply) ==
  IF reply.bundle_status = PyStr(<<"0">>) THEN "ManifestNotFoundError"
  ELSE IF reply.bundle_status = PyStr(<<"1">>) /\ reply.payload_status = PyStr(<<"1">>)
    THEN "PayloadNotFoundError"
  ELSE "UnknownRhizomeStatusError"

\* C21 as stated: get_payload returns the body exactly for status 200; 404
\* gives ManifestNotFoundError or PayloadNotFoundError by the two status
\* headers, 419 gives DecryptionError, every other reply
\* UnknownRhizomeStatusError; decrypted.bin is requested exactly when
\* manifest.crypt is 1.
C21_PayloadOrError ==
  b_call = "get_payload" =>
    /\ Len(b_log) = 1
    /\ (b_log[1].endpoint = "decrypted.bin") <=> CryptIsOne
    /\ (b_pc = "returned") <=> (PayloadReply.status = 200)
    /\ b_pc = "returned" => b_result = PyStr(PayloadReply.text)
    /\ b_pc = "raised" =>
         b_error = IF PayloadReply.status = 404 THEN NotFoundError(PayloadReply)
                   ELSE IF PayloadReply.status = 419 THEN "DecryptionError"
                   ELSE "UnknownRhizomeStatusError"

\* C21 amended: as above, but 419 gives DecryptionError only on
\* decrypted.bin (on raw.bin it gives UnknownRhizomeStatusError), and 401
\* gives the connection's UnauthorizedError.
C21_PayloadOrErrorByEndpoint ==
  b_call = "get_payload" =>
    /\ Len(b_log) = 1
    /\ b_log[1].endpoint \in {"decrypted.bin", "raw.bin"}
    /\ (b_log[1].endpoint = "decrypted.bin") <=> CryptIsOne
    /\ (b_pc = "returned") <=> (PayloadReply.status = 200)
    /\ b_pc = "returned" =>
         /\ b_result = PyStr(PayloadReply.text)
         /\ b_self.payload = b_result
    /\ b_pc = "raised" =>
         /\ b_result = PyNone
         /\ b_self = b_before
         /\ b_error = IF PayloadReply.status = 401 THEN "UnauthorizedError"
                      ELSE IF PayloadReply.status = 404 THEN NotFoundError(PayloadReply)
                      ELSE IF PayloadReply.status = 419 /\ CryptIsOne THEN "DecryptionError"
                      ELSE "UnknownRhizomeStatusError"

\* C21 witness: a bundle with crypt 1 was asked for its payload, and the
\* daemon answered 419.
C21_Witness ==
  /\ b_call = "get_payload"
  /\ CryptIsOne
  /\ b_log[1].endpoint = "decrypted.bin"
  /\ PayloadReply.status = 419
  /\ b_error = "DecryptionError"

(***************************************************************************)
(* C24.  The complete flag guards update.                                  *)
(***************************************************************************)
UpdateCalls == {"update", "update_payload", "update_manifest"}

PostsSent(log) == {i \in 1..Len(log) : log[i].endpoint \in {"insert", "append"}}

\* C24: in every step, an update call on an object whose complete flag is
\* false raises AssertionError and sends nothing, so an insert or append is
\* sent by update only for a complete object; the object returned by
\* get_bundlelist, insert, append or clone has complete false; and the flag
\* turns true only in a refresh, get_bundle, new_bundle or new_journal that
\* returns.
C24_UpdateNeedsComplete ==
  [][/\ b_call' \in UpdateCalls /\ ~b_self.complete =>
          /\ b_pc' = "raised"
          /\ b_error' = "AssertionError"
          /\ b_log' = <<>>
          /\ ~b_self'.complete
     /\ b_call' \in UpdateCalls /\ PostsSent(b_log') # {} => b_self.complete
     /\ b_call' \in {"get_bundlelist", "insert", "append", "clone"} /\ b_pc' = "returned" =>
          ~b_self'.complete
     /\ ~b_self.complete /\ b_self'.complete =>
          /\ b_call' \in {"refresh", "get_bundle", "new_bundle", "new_journal"}
          /\ b_pc' = "returned"]_vars

\* C24 witness: update was called on a bundle of the bundle list that no
\* refresh had completed, and was rejected without a request.
C24_Witness ==
  /\ b_call = "update"
  /\ b_before.token # PyNone
  /\ ~b_before.complete
  /\ b_error = "AssertionError"
  /\ b_log = <<>>

(***************************************************************************)
(* C28.  What a failed update leaves of the object.                        *)
(***************************************************************************)
\* C28: when update, update_payload or update_manifest raises, the object's
\* manifest and payload are what they were before the call.
C28_FailedUpdateLeavesObject ==
  b_call \in UpdateCalls /\ b_pc = "raised" =>
    /\ b_self.manifest = b_before.manifest
    /\ b_self.payload = b_before.payload

(***************************************************************************)
(* C25.  MeshMS.send_message.                                              *)
(***************************************************************************)
\* C25: send_message with a non-empty message sends one POST; when the
\* daemon answers 200 or 201 it returns, and the conversation holds one
\* more message; for every other status it raises RhizomeHTTPStatusError.
C25_SendMessageByStatus ==
  ms_call = "send_message" /\ ms_message # <<>> =>
    /\ ms_posts = 1
    /\ ms_status \in {200, 201} =>
         /\ ms_pc = "returned"
         /\ ms_stored = <<ms_message>> \o ms_before
    /\ ms_status \notin {200, 201} =>
         /\ ms_pc = "raised"
         /\ ms_error = "RhizomeHTTPStatusError"

(***************************************************************************)
(* C29.  ServalIdentity.set.                                               *)
(***************************************************************************)
\* C29: after ServalIdentity.set returned, did and name of the object are
\* the did and name the daemon holds for the object's SID.
C29_LocalEqualsStored ==
  k_call = "ServalIdentity.set" /\ k_pc = "returned" =>
    \E i \in 1..Len(keyring) :
      /\ keyring[i].sid = k_args.sid
      /\ keyring[i].did = k_result.did
      /\ keyring[i].name = k_result.name

====
